---- MODULE Spec2Model ----
(***************************************************************************)
(* Container lifecycle of qodana-cli: the main path of runQodanaContainer  *)
(* (pre-flight, pull, option building, create, start, wait), the log       *)
(* follower, the interrupt listener of main() and the container engine.    *)
(*                                                                         *)
(* Strings are sequences of atoms.  An atom is a character ("a", ":") or   *)
(* an indivisible word ("QODANA_TOKEN"); substring, prefix and split       *)
(* operators work on these sequences the way the Go strings package works  *)
(* on bytes.                                                               *)
(***************************************************************************)
EXTENDS Integers, Sequences, FiniteSets, TLC

\* ------------------------------------------------------------------ bounds
MaxVolLen == 3
MaxSignals == 2
MaxEnv == 2
MaxVolumes == 2
MaxProps == 2
MaxEntries == 2

\* --------------------------------------------------------- string helpers
Empty == << >>

\* strings.Contains
Contains(s, sub) ==
    \E i \in 0..(Len(s) - Len(sub)) : SubSeq(s, i + 1, i + Len(sub)) = sub

\* strings.HasPrefix
HasPrefix(s, p) == Len(s) >= Len(p) /\ SubSeq(s, 1, Len(p)) = p

\* strings.Split(s, d) for a one-atom separator d: always at least one part
RECURSIVE Split(_, _)
Split(s, d) ==
    IF s = << >> THEN << << >> >>
    ELSE LET rest == Split(Tail(s), d) IN
         IF Head(s) = d THEN << << >> >> \o rest
         ELSE << <<Head(s)>> \o Head(rest) >> \o Tail(rest)

\* strutil.SafeSplit(s, d, idx): the idx-th part (from 0), "" when missing
SafeSplit(s, d, idx) ==
    LET parts == Split(s, d) IN
    IF Len(parts) > idx THEN parts[idx + 1] ELSE Empty

UpperLetters == <<"A", "B", "C", "D", "E", "F", "G", "H", "I", "J", "K", "L", "M",
                  "N", "O", "P", "Q", "R", "S", "T", "U", "V", "W", "X", "Y", "Z">>
LowerLetters == <<"a", "b", "c", "d", "e", "f", "g", "h", "i", "j", "k", "l", "m",
                  "n", "o", "p", "q", "r", "s", "t", "u", "v", "w", "x", "y", "z">>

LowerChar(c) ==
    IF \E i \in 1..26 : UpperLetters[i] = c
    THEN LowerLetters[CHOOSE i \in 1..26 : UpperLetters[i] = c]
    ELSE c

\* strutil.Lower
Lower(s) == [i \in 1..Len(s) |-> LowerChar(s[i])]

Digits == <<"0", "1", "2", "3", "4", "5", "6", "7", "8", "9">>

\* strconv.Itoa for n >= 0
RECURSIVE Itoa(_)
Itoa(n) == IF n < 10 THEN <<Digits[n + 1]>> ELSE Itoa(n \div 10) \o <<Digits[(n % 10) + 1]>>

\* fmt.Sprintf("%s=%s", k, v)
KeyValue(k, v) == k \o <<"=">> \o v

\* ------------------------------------------------------ program constants
officialImagePrefix == <<"jetbrains/qodana">>
containerJvmDebugPort == <<"5", "0", "0", "5">>
SentinelName == <<"qodana-cli">>
ReleaseVersion == <<"2025.1">>

QodanaToken == <<"QODANA_TOKEN">>
QodanaLicense == <<"QODANA_LICENSE">>
QodanaLicenseOnlyToken == <<"QODANA_LICENSE", "_ONLY_TOKEN">>

DataCacheDir == <<"/data/cache">>
DataProjectDir == <<"/data/project">>
DataResultsDir == <<"/data/results">>
DataResultsReportDir == <<"/data/results/report">>
DataGlobalConfigDir == <<"/data/qodana-global-config">>

\* ---------------------------------------------------------- registry puller
ErrUnauthorized == <<"u", "n", "a", "u", "t", "h", "o", "r", "i", "z", "e", "d">>
ErrDenied == <<"A", "c", "c", "e", "s", "s", " ", "D", "e", "n", "i", "e", "d">>
ErrForbidden == <<"4", "0", "3", " ", "F", "O", "R", "B", "I", "D", "D", "E", "N">>
ErrTimeout == <<"i", "/", "o", " ", "t", "i", "m", "e", "o", "u", "t">>
ErrNotFound == <<"n", "o", "t", " ", "f", "o", "u", "n", "d">>
PullErrors == {ErrUnauthorized, ErrDenied, ErrForbidden, ErrTimeout, ErrNotFound}

isDockerUnauthorizedError_AnyError(errMsg) == TRUE

isDockerUnauthorizedError(errMsg) ==
    LET m == Lower(errMsg) IN
    \/ Contains(m, <<"u", "n", "a", "u", "t", "h", "o", "r", "i", "z", "e", "d">>)
    \/ Contains(m, <<"d", "e", "n", "i", "e", "d">>)
    \/ Contains(m, <<"f", "o", "r", "b", "i", "d", "d", "e", "n">>)

\* ------------------------------------------ container configuration builder
\* qdenv.ExtractQodanaEnvironment hands (key, value) pairs taken from the
\* process environment to the callback, in order.
EnvKey(entry) == SafeSplit(entry, "=", 0)

WithEnvExtractedFromOsEnv(c, key, value) ==
    IF \E i \in 1..Len(c.env) : EnvKey(c.env[i]) = key
    THEN c
    ELSE [c EXCEPT !.env = Append(@, KeyValue(key, value))]

RECURSIVE ExtractQodanaEnvironment(_, _)
ExtractQodanaEnvironment(c, pairs) ==
    IF pairs = << >> THEN c
    ELSE ExtractQodanaEnvironment(
             WithEnvExtractedFromOsEnv(c, Head(pairs).key, Head(pairs).value),
             Tail(pairs))

\* lines 282-293 of getDockerOptions
dockerEnv_BothTokens(c, os) ==
    LET c1 == ExtractQodanaEnvironment(c, os.extracted)
        env0 == c1.env
        env1 == IF c1.uploadToken # Empty
                THEN Append(env0, KeyValue(QodanaToken, c1.uploadToken))
                ELSE env0
    IN  IF os.licenseOnlyToken # Empty
        THEN Append(env1, KeyValue(QodanaLicenseOnlyToken, os.licenseOnlyToken))
        ELSE env1

dockerEnv(c, os) ==
    LET c1 == ExtractQodanaEnvironment(c, os.extracted)
        env0 == c1.env
        env1 == IF c1.uploadToken # Empty
                THEN Append(env0, KeyValue(QodanaToken, c1.uploadToken))
                ELSE env0
    IN  IF os.licenseOnlyToken # Empty /\ c1.uploadToken = Empty
        THEN Append(env1, KeyValue(QodanaLicenseOnlyToken, os.licenseOnlyToken))
        ELSE env1

extractDockerVolumes_Swapped(goos, volume) ==
    IF goos = "windows"
    THEN LET parts == Split(volume, ":") IN
         IF Len(parts) >= 3
         THEN [source |-> parts[1] \o <<":">> \o parts[2], target |-> parts[3]]
         ELSE [source |-> Empty, target |-> Empty]
    ELSE LET source == SafeSplit(volume, ":", 1)
             target == SafeSplit(volume, ":", 0) IN
         IF source # Empty /\ target # Empty
         THEN [source |-> source, target |-> target]
         ELSE [source |-> Empty, target |-> Empty]

extractDockerVolumes(goos, volume) ==
    IF goos = "windows"
    THEN LET parts == Split(volume, ":") IN
         IF Len(parts) >= 3
         THEN [source |-> parts[1] \o <<":">> \o parts[2], target |-> parts[3]]
         ELSE [source |-> Empty, target |-> Empty]
    ELSE LET source == SafeSplit(volume, ":", 0)
             target == SafeSplit(volume, ":", 1) IN
         IF source # Empty /\ target # Empty
         THEN [source |-> source, target |-> target]
         ELSE [source |-> Empty, target |-> Empty]

BindMount(source, target) == [Type |-> "bind", Source |-> source, Target |-> target]

\* lines 315-353: the fixed mounts and the optional global configuration mount
FixedMounts(c) ==
    << BindMount(c.cacheDir, DataCacheDir),
       BindMount(c.projectDir, DataProjectDir),
       BindMount(c.resultsDir, DataResultsDir),
       BindMount(c.reportDir, DataResultsReportDir) >>
    \o (IF c.globalConfigDir # Empty
        THEN << BindMount(c.globalConfigDir, DataGlobalConfigDir) >>
        ELSE << >>)

\* lines 354-367: the loop over c.Volumes(); fatal at the first volume that
\* does not parse
RECURSIVE UserMounts(_, _, _)
UserMounts(goos, volumes, acc) ==
    IF volumes = << >> THEN [fatal |-> FALSE, mounts |-> acc]
    ELSE LET v == extractDockerVolumes(goos, Head(volumes)) IN
         IF v.source # Empty /\ v.target # Empty
         THEN UserMounts(goos, Tail(volumes), Append(acc, BindMount(v.source, v.target)))
         ELSE [fatal |-> TRUE, mounts |-> acc]

\* line 313: fmt.Sprintf("qodana-cli-%s", c.Id())
synthesizedName(c) == <<"qodana-cli", "-">> \o c.id

\* lines 374-390
portBindingsOf_ZeroIncluded(c) ==
    IF c.jvmDebugPort >= 0
    THEN {[port |-> containerJvmDebugPort, HostIP |-> "0.0.0.0",
           HostPort |-> Itoa(c.jvmDebugPort)]}
    ELSE {}

portBindingsOf(c) ==
    IF c.jvmDebugPort > 0
    THEN {[port |-> containerJvmDebugPort, HostIP |-> "0.0.0.0",
           HostPort |-> Itoa(c.jvmDebugPort)]}
    ELSE {}

exposedPortsOf(c) == IF c.jvmDebugPort > 0 THEN {containerJvmDebugPort} ELSE {}

\* lines 392-406
capAddOf_AnyImage(image) == <<"SYS_PTRACE">>

capAddOf(image) == IF Contains(image, <<"dotnet">>) THEN <<"SYS_PTRACE">> ELSE << >>
securityOptOf(image) ==
    IF Contains(image, <<"dotnet">>) THEN <<"seccomp=unconfined">> ELSE << >>
networkModeOf(os) == IF HasPrefix(os.cloudUrl, <<"http://">>) THEN "host" ELSE ""

\* getDockerOptions: the value returned, or a fatal exit
getDockerOptions(goos, c, os, image, name) ==
    LET um == UserMounts(goos, c.volumes, FixedMounts(c)) IN
    IF um.fatal THEN [fatal |-> TRUE]
    ELSE [fatal |-> FALSE,
          Name |-> name,
          Image |-> image,
          Cmd |-> c.cmd,
          Tty |-> os.interactive,
          AttachStdout |-> TRUE,
          AttachStderr |-> TRUE,
          Env |-> dockerEnv(c, os),
          User |-> c.user,
          ExposedPorts |-> exposedPortsOf(c),
          AutoRemove |-> (os.containerKeep = Empty),
          Mounts |-> um.mounts,
          CapAdd |-> capAddOf(image),
          SecurityOpt |-> securityOptOf(image),
          PortBindings |-> portBindingsOf(c),
          NetworkMode |-> networkModeOf(os)]

\* ----------------------------------------------------- the logged command
RECURSIVE Flatten(_)
Flatten(ss) == IF ss = << >> THEN << >> ELSE Head(ss) \o Flatten(Tail(ss))

\* lines 451-455: the test that lets an environment entry into the command
envIsLogged(env) ==
    \/ ~Contains(env, QodanaToken)
    \/ Contains(env, QodanaLicense)
    \/ Contains(env, QodanaLicenseOnlyToken)

\* generateDebugDockerRunCommand: the string, one atom per written piece
generateDebugDockerRunCommand_NoRedaction(cfg) ==
    <<"docker run ">>
    \o (IF cfg.AutoRemove THEN <<"--rm ">> ELSE << >>)
    \o (IF cfg.AttachStdout THEN <<"-a stdout ">> ELSE << >>)
    \o (IF cfg.AttachStderr THEN <<"-a stderr ">> ELSE << >>)
    \o (IF cfg.Tty THEN <<"-it ">> ELSE << >>)
    \o (IF cfg.User # Empty THEN <<"-u ">> \o cfg.User \o <<" ">> ELSE << >>)
    \o Flatten([i \in 1..Len(cfg.Env) |-> <<"-e ">> \o cfg.Env[i] \o <<" ">>])
    \o Flatten([i \in 1..Len(cfg.Mounts) |->
                  <<"-v ">> \o cfg.Mounts[i].Source \o <<":">>
                           \o cfg.Mounts[i].Target \o <<" ">>])
    \o Flatten([i \in 1..Len(cfg.CapAdd) |-> <<"--cap-add ", cfg.CapAdd[i], " ">>])
    \o Flatten([i \in 1..Len(cfg.SecurityOpt) |->
                  <<"--security-opt ", cfg.SecurityOpt[i], " ">>])
    \o cfg.Image \o <<" ">>
    \o Flatten([i \in 1..Len(cfg.Cmd) |-> cfg.Cmd[i] \o <<" ">>])

generateDebugDockerRunCommand(cfg) ==
    <<"docker run ">>
    \o (IF cfg.AutoRemove THEN <<"--rm ">> ELSE << >>)
    \o (IF cfg.AttachStdout THEN <<"-a stdout ">> ELSE << >>)
    \o (IF cfg.AttachStderr THEN <<"-a stderr ">> ELSE << >>)
    \o (IF cfg.Tty THEN <<"-it ">> ELSE << >>)
    \o (IF cfg.User # Empty THEN <<"-u ">> \o cfg.User \o <<" ">> ELSE << >>)
    \o Flatten([i \in 1..Len(cfg.Env) |->
                  IF envIsLogged(cfg.Env[i])
                  THEN <<"-e ">> \o cfg.Env[i] \o <<" ">>
                  ELSE << >>])
    \o Flatten([i \in 1..Len(cfg.Mounts) |->
                  <<"-v ">> \o cfg.Mounts[i].Source \o <<":">>
                           \o cfg.Mounts[i].Target \o <<" ">>])
    \o Flatten([i \in 1..Len(cfg.CapAdd) |-> <<"--cap-add ", cfg.CapAdd[i], " ">>])
    \o Flatten([i \in 1..Len(cfg.SecurityOpt) |->
                  <<"--security-opt ", cfg.SecurityOpt[i], " ">>])
    \o cfg.Image \o <<" ">>
    \o Flatten([i \in 1..Len(cfg.Cmd) |-> cfg.Cmd[i] \o <<" ">>])

\* ------------------------------------------------------------ image policy
isUnofficialLinter(linter) == ~HasPrefix(linter, officialImagePrefix)
hasExactVersionTag(linter) ==
    Contains(linter, <<":">>) /\ ~Contains(linter, <<":", "latest">>)
isCompatibleLinter(linter) == Contains(linter, ReleaseVersion)

\* CheckImage: the set of warnings printed
CheckImage(cliVersion, linter) ==
    IF Contains(cliVersion, <<"nightly">>) \/ Contains(cliVersion, <<"dev">>)
    THEN {}
    ELSE (IF isUnofficialLinter(linter) THEN {"unofficial"} ELSE {})
         \cup (IF ~hasExactVersionTag(linter) THEN {"unpinned"}
               ELSE IF ~isCompatibleLinter(linter) THEN {"incompatible"}
               ELSE {})

\* ------------------------------------------------- the dotnet tool command
\* c is the third-party scan context: the options, the dotnet section of
\* qodana.yaml, the log directory and the path of the clt tool
ErrNoSolutionOrProject ==
    <<"solution/project relative file path is not specified. Use --solution or --project flags or create qodana.yaml file with respective fields">>

RECURSIVE FirstNonEmpty(_)
FirstNonEmpty(values) ==
    IF values = << >> THEN << >>
    ELSE IF Head(values) # << >> THEN Head(values)
    ELSE FirstNonEmpty(Tail(values))

getSolutionOrProject_OptionsOnly(c) ==
    FirstNonEmpty(<<c.CdnetSolution, c.CdnetProject>>)

getSolutionOrProject(c) ==
    FirstNonEmpty(<<c.CdnetSolution, c.CdnetProject, c.yaml.Solution, c.yaml.Project>>)

\* the properties meant for the IDE and for TeamCity
isIdeProperty(p) ==
    \/ HasPrefix(p, <<"log.project.structure.changes">>)
    \/ HasPrefix(p, <<"idea.">>)
    \/ HasPrefix(p, <<"qodana.default.">>)
    \/ HasPrefix(p, <<"jetbrains.security.">>)

RECURSIVE Join(_, _)
Join(parts, sep) ==
    IF parts = << >> THEN << >>
    ELSE IF Len(parts) = 1 THEN Head(parts)
    ELSE Head(parts) \o <<sep>> \o Join(Tail(parts), sep)

KeepUserProperty(p) == ~isIdeProperty(p)
KeepAnyProperty(p) == TRUE

cdnetProperties_KeepsIdeProperties(c) ==
    LET cfg == FirstNonEmpty(<<c.CdnetConfiguration, c.yaml.Configuration>>)
        plt == FirstNonEmpty(<<c.CdnetPlatform, c.yaml.Platform>>)
    IN  SelectSeq(c.Property, KeepAnyProperty)
        \o (IF cfg # << >> THEN << <<"Configuration", "=">> \o cfg >> ELSE << >>)
        \o (IF plt # << >> THEN << <<"Platform", "=">> \o plt >> ELSE << >>)

cdnetProperties(c) ==
    LET cfg == FirstNonEmpty(<<c.CdnetConfiguration, c.yaml.Configuration>>)
        plt == FirstNonEmpty(<<c.CdnetPlatform, c.yaml.Platform>>)
    IN  SelectSeq(c.Property, KeepUserProperty)
        \o (IF cfg # << >> THEN << <<"Configuration", "=">> \o cfg >> ELSE << >>)
        \o (IF plt # << >> THEN << <<"Platform", "=">> \o plt >> ELSE << >>)

\* computeCdnetArgs: the arguments and the error text, empty when nil
computeCdnetArgs(c) ==
    LET target == getSolutionOrProject(c)
        props == cdnetProperties(c)
    IN  IF target = << >>
        THEN [args |-> << >>, err |-> ErrNoSolutionOrProject]
        ELSE [args |->
                << <<"dotnet">>, c.clt, <<"inspectcode">>, target,
                   <<"-o=", "\"", "qodana.sarif.json", "\"">>,
                   <<"-f=", "\"", "Qodana", "\"">>,
                   <<"--LogFolder=", "\"">> \o c.LogDir \o <<"\"">> >>
                \o (IF props # << >>
                    THEN << <<"--properties:">> \o Join(props, ";") >>
                    ELSE << >>)
                \o (IF c.CdnetNoBuild THEN << <<"--no-build">> >> ELSE << >>),
              err |-> << >>]

\* ------------------------------------------------------ the scan context
\* paths are their components with the separators: /work/app is
\* <<"/", "work", "/", "app">>, the relative paths . and app are <<".">>, <<"app">>
IsAbs(path) == path # << >> /\ Head(path) = "/"

\* filepath.Clean, for the one rewrite the inputs need: "/." is dropped
RECURSIVE Clean(_)
Clean(path) ==
    IF Len(path) < 2 THEN path
    ELSE IF path[1] = "/" /\ path[2] = "."
         THEN Clean(SubSeq(path, 3, Len(path)))
         ELSE <<Head(path)>> \o Clean(Tail(path))

\* filepath.Abs: wd is the working directory, empty when os.Getwd fails, and
\* then the result is "" with an error
Abs(wd, path) ==
    IF IsAbs(path) THEN Clean(path)
    ELSE IF wd = << >> THEN << >>
    ELSE Clean(wd \o <<"/">> \o path)

\* getHash: hex of SHA-256, tabulated for the strings that occur
getHash(s) ==
    CASE s = <<"jetbrains/qodana", "-", "jvm", ":", "2025.1">> ->
         << "e", "7", "0", "9", "0", "2", "8", "7", "d", "f", "4", "8", "2", "e", "a", "7",
           "b", "e", "6", "c", "0", "e", "e", "d", "d", "2", "e", "4", "c", "b", "9", "2",
           "9", "e", "e", "0", "0", "1", "5", "b", "c", "e", "2", "9", "5", "4", "4", "f",
           "5", "9", "9", "2", "9", "7", "c", "b", "7", "f", "1", "4", "5", "4", "b", "0" >>
      [] s = <<"jetbrains/qodana", "-", "dotnet", ":", "2025.1">> ->
         << "c", "b", "3", "b", "3", "f", "9", "4", "f", "5", "e", "d", "a", "7", "b", "5",
           "0", "c", "2", "3", "5", "f", "8", "1", "8", "e", "3", "5", "1", "6", "6", "5",
           "8", "9", "1", "8", "5", "1", "d", "0", "b", "e", "8", "5", "4", "6", "3", "8",
           "4", "7", "5", "7", "1", "e", "9", "4", "d", "1", "3", "7", "9", "a", "c", "8" >>
      [] s = <<"QDJVM">> ->
         << "c", "2", "c", "3", "8", "8", "8", "6", "a", "2", "6", "d", "5", "0", "2", "a",
           "b", "e", "9", "8", "b", "9", "a", "0", "0", "f", "a", "1", "d", "2", "2", "7",
           "6", "5", "7", "4", "2", "f", "9", "e", "d", "d", "f", "7", "8", "7", "2", "1",
           "a", "f", "e", "7", "0", "4", "0", "e", "3", "f", "8", "1", "9", "d", "7", "7" >>
      [] s = <<"QDPY">> ->
         << "1", "1", "8", "8", "7", "0", "8", "0", "6", "d", "3", "7", "6", "f", "b", "9",
           "5", "9", "8", "2", "a", "0", "d", "2", "6", "d", "c", "3", "7", "b", "b", "9",
           "2", "c", "4", "2", "4", "7", "e", "1", "1", "f", "6", "8", "9", "e", "1", "2",
           "a", "6", "0", "c", "d", "7", "4", "4", "a", "e", "4", "5", "d", "9", "5", "d" >>
      [] s = <<"QDGO">> ->
         << "6", "f", "e", "d", "d", "c", "4", "3", "d", "0", "f", "b", "5", "c", "c", "9",
           "3", "0", "e", "b", "9", "1", "a", "3", "3", "2", "c", "9", "e", "8", "a", "e",
           "3", "e", "2", "5", "d", "c", "f", "7", "d", "f", "9", "2", "a", "9", "6", "0",
           "b", "e", "e", "6", "a", "b", "7", "0", "5", "6", "d", "f", "3", "c", "b", "b" >>
      [] s = <<"/", "project">> ->
         << "e", "a", "0", "1", "3", "5", "b", "c", "a", "5", "e", "3", "b", "d", "8", "1",
           "5", "f", "5", "b", "7", "b", "8", "f", "8", "c", "8", "3", "d", "8", "6", "f",
           "5", "8", "4", "6", "9", "7", "b", "c", "2", "9", "e", "0", "c", "c", "3", "b",
           "3", "0", "9", "3", "7", "1", "5", "3", "a", "b", "e", "f", "2", "8", "4", "4" >>
      [] s = <<"/", "work">> ->
         << "0", "c", "9", "a", "4", "5", "3", "f", "a", "d", "6", "1", "5", "c", "8", "3",
           "c", "5", "7", "d", "5", "7", "c", "2", "b", "2", "b", "e", "0", "5", "f", "a",
           "9", "3", "8", "f", "0", "7", "9", "1", "d", "7", "6", "2", "4", "d", "b", "4",
           "3", "8", "2", "7", "a", "0", "3", "3", "2", "2", "7", "b", "f", "7", "8", "b" >>
      [] s = <<"/", "work", "/", "app">> ->
         << "7", "0", "4", "6", "7", "e", "f", "f", "2", "e", "0", "a", "2", "3", "6", "4",
           "9", "7", "f", "0", "6", "9", "3", "9", "0", "1", "c", "7", "8", "2", "c", "6",
           "7", "4", "5", "2", "0", "c", "5", "9", "8", "f", "5", "7", "e", "7", "2", "b",
           "2", "2", "e", "6", "3", "6", "e", "0", "0", "3", "1", "1", "b", "d", "8", "1" >>
      [] s = <<"/", "project", "/", "app">> ->
         << "e", "d", "0", "b", "d", "4", "f", "a", "7", "f", "8", "3", "a", "5", "9", "b",
           "a", "1", "8", "f", "9", "0", "0", "e", "f", "7", "c", "f", "1", "0", "6", "8",
           "e", "a", "3", "d", "6", "e", "4", "d", "f", "f", "a", "5", "9", "9", "a", "1",
           "5", "b", "5", "4", "b", "4", "8", "e", "8", "c", "f", "8", "c", "5", "3", "6" >>
      [] s = << >> ->
         << "e", "3", "b", "0", "c", "4", "4", "2", "9", "8", "f", "c", "1", "c", "1", "4",
           "9", "a", "f", "b", "f", "4", "c", "8", "9", "9", "6", "f", "b", "9", "2", "4",
           "2", "7", "a", "e", "4", "1", "e", "4", "6", "4", "9", "b", "9", "3", "4", "c",
           "a", "4", "9", "5", "9", "9", "1", "b", "7", "8", "5", "2", "b", "8", "5", "5" >>
      [] s = <<".">> ->
         << "c", "d", "b", "4", "e", "e", "2", "a", "e", "a", "6", "9", "c", "c", "6", "a",
           "8", "3", "3", "3", "1", "b", "b", "e", "9", "6", "d", "c", "2", "c", "a", "a",
           "9", "a", "2", "9", "9", "d", "2", "1", "3", "2", "9", "e", "f", "b", "0", "3",
           "3", "6", "f", "c", "0", "2", "a", "8", "2", "e", "1", "8", "3", "9", "a", "8" >>
      [] s = <<"app">> ->
         << "a", "1", "7", "2", "c", "e", "d", "c", "a", "e", "4", "7", "4", "7", "4", "b",
           "6", "1", "5", "c", "5", "4", "d", "5", "1", "0", "a", "5", "d", "8", "4", "a",
           "8", "d", "e", "a", "3", "0", "3", "2", "e", "9", "5", "8", "5", "8", "7", "4",
           "3", "0", "b", "4", "1", "3", "5", "3", "8", "b", "e", "3", "f", "3", "3", "3" >>

\* lines 115-130
computeId_RawProjectDir(linter, ide, projectDir, wd) ==
    LET analyzer == IF linter # << >> THEN linter ELSE ide IN
    SubSeq(getHash(analyzer), 1, 8) \o <<"-">> \o SubSeq(getHash(projectDir), 1, 8)

computeId(linter, ide, projectDir, wd) ==
    LET analyzer == IF linter # << >> THEN linter ELSE ide
        projectAbs == Abs(wd, projectDir)
    IN  SubSeq(getHash(analyzer), 1, 8) \o <<"-">> \o SubSeq(getHash(projectAbs), 1, 8)

\* product.IsNativeAnalyzer, part_000 lines 93, 174-176
AllNativeCodes ==
    {<<"QDNET">>, <<"QDJVM">>, <<"QDJVMC">>, <<"QDGO">>, <<"QDPY">>, <<"QDPYC">>,
     <<"QDJS">>, <<"QDPHP">>}
IsNativeAnalyzer(analyzer) == analyzer \in AllNativeCodes

\* getLinterAndIdeFromProject, lines 75-113: the pair returned, or os.Exit(1);
\* yaml is the loaded qodana.yaml, guess what GetAnalyzer returns
getLinterAndIdeFromProject(yaml, guess) ==
    IF yaml.linter = << >> /\ yaml.ide = << >>
    THEN IF IsNativeAnalyzer(guess)
         THEN [exits |-> FALSE, linter |-> << >>, ide |-> guess]
         ELSE [exits |-> FALSE, linter |-> guess, ide |-> << >>]
    ELSE IF yaml.linter # << >> /\ yaml.ide # << >>
    THEN [exits |-> TRUE, linter |-> << >>, ide |-> << >>]
    ELSE IF yaml.linter # << >>
    THEN [exits |-> FALSE, linter |-> yaml.linter, ide |-> << >>]
    ELSE [exits |-> FALSE, linter |-> << >>, ide |-> yaml.ide]

\* Compute, lines 33-73: the fields of the returned context that the run
\* reads, or the exit of getLinterAndIdeFromProject
Compute(call) ==
    LET fromProject == call.overrideLinter = << >> /\ call.overrideIde = << >>
        found == getLinterAndIdeFromProject(call.yaml, call.guess)
        linter == IF fromProject THEN found.linter ELSE call.overrideLinter
        ide == IF fromProject THEN found.ide ELSE call.overrideIde
    IN  IF fromProject /\ found.exits
        THEN [exits |-> TRUE]
        ELSE [exits |-> FALSE, Linter |-> linter, Ide |-> ide,
              ProjectDir |-> call.projectDir,
              Id |-> computeId(linter, ide, call.projectDir, call.wd)]

\* ---------------------------------------------------- archive extraction
\* What a call of unpackZip or extractTarGz gives: the error returned, the
\* done flag, the number of entries the loop went through, and whether a
\* deferred Close ended the process through log.Fatal.
Unpacked(err, done, processed) ==
    [err |-> err, done |-> done, processed |-> processed, fatal |-> FALSE]

\* the deferred Close calls run on return; a failing one calls log.Fatal
WithDeferredClose(a, r) == [r EXCEPT !.fatal = a.closeFails]

\* unpackZip, lines 132-176: the loop from entry i on
RECURSIVE unpackZipLoop(_, _)
unpackZipLoop(entries, i) ==
    IF i > Len(entries) THEN Unpacked(FALSE, FALSE, Len(entries))
    ELSE LET f == entries[i] IN
         IF ~f.legal THEN Unpacked(TRUE, TRUE, i - 1)
         ELSE IF f.type = "dir"
              THEN IF f.fail = "mkdir"
                   THEN Unpacked(TRUE, TRUE, i - 1)
                   ELSE unpackZipLoop(entries, i + 1)
              ELSE IF f.fail \in {"mkdir", "open", "copy", "copyclose", "close"}
                   THEN Unpacked(TRUE, TRUE, i - 1)
                   ELSE unpackZipLoop(entries, i + 1)

unpackZip(a) ==
    IF a.openFails THEN Unpacked(TRUE, TRUE, 0)
    ELSE WithDeferredClose(a, unpackZipLoop(a.entries, 1))

\* lines 230-236: io.Copy failed; the inner err := file.Close() is the value
\* the return statement names
copyFailed(f, i) == Unpacked(f.fail = "copyclose", TRUE, i - 1)

\* extractTarGz, lines 205-243: the loop from entry i on
RECURSIVE extractTarGzLoop(_, _)
extractTarGzLoop(entries, i) ==
    IF i > Len(entries) THEN Unpacked(FALSE, FALSE, Len(entries))
    ELSE LET f == entries[i] IN
         IF f.fail = "header" THEN Unpacked(TRUE, TRUE, i - 1)
         ELSE IF ~f.legal THEN Unpacked(TRUE, TRUE, i - 1)
         ELSE IF f.type = "dir"
              THEN IF f.fail = "mkdir"
                   THEN Unpacked(TRUE, TRUE, i - 1)
                   ELSE extractTarGzLoop(entries, i + 1)
         ELSE IF f.type = "reg"
              THEN IF f.fail = "open" THEN Unpacked(TRUE, TRUE, i - 1)
                   ELSE IF f.fail \in {"copy", "copyclose"} THEN copyFailed(f, i)
                   ELSE IF f.fail = "close" THEN Unpacked(TRUE, TRUE, i - 1)
                   ELSE extractTarGzLoop(entries, i + 1)
         ELSE extractTarGzLoop(entries, i + 1)

extractTarGz(a) ==
    IF a.openFails THEN Unpacked(TRUE, TRUE, 0)
    ELSE IF a.gzipFails THEN WithDeferredClose(a, Unpacked(TRUE, TRUE, 0))
    ELSE WithDeferredClose(a, extractTarGzLoop(a.entries, 1))

\* Decompress, lines 101-117: the error returned is that of the unpacker
\* when it says done, and nil otherwise
Decompress(a, os) ==
    LET r == IF a.isZip \/ os = "windows" THEN unpackZip(a) ELSE extractTarGz(a)
    IN  [r EXCEPT !.err = IF r.done THEN r.err ELSE FALSE]

\* ------------------------------------------------------------------- state
VARIABLES
    unpack,         \* an archive, and what a call of Decompress on it gave
    cc,             \* the call of Compute of this invocation and the last one
    cdnet,          \* the call of computeCdnetArgs and what it returned
    goos,           \* runtime.GOOS
    ctx,            \* the scan context (corescan.Context)
    osenv,          \* process environment, build version, cloud endpoint
    image,          \* dockerAnalyzer.Image
    osType,         \* what the engine's Info reports as OSType
    pc,             \* position of the main path in runQodanaContainer
    containerName,  \* the package variable containerName
    dockerConfig,   \* the local dockerConfig of runQodanaContainer
    warnings,       \* warnings printed by CheckImage
    exitCode,       \* the local exitCode of runQodanaContainer
    ret,            \* value returned by runQodanaContainer
    calls,          \* engine calls issued so far, in order, per goroutine
    stream,         \* the response stream of the last ImagePull
    pullErr,        \* error text of the first ImagePull, empty when none
    cstate,         \* engine side: state of the container of this run
    cexit,          \* engine side: exit status of the container
    waitCh,         \* the pair of channels returned by ContainerWait
    fpc,            \* position of the followLinter goroutine
    lpc,            \* position of the interrupt listener goroutine
    sigch,          \* number of signals buffered in InterruptChannel
    sigsent,        \* number of signals delivered to the process
    sigAt,          \* state of the container when the listener took the signal
    lsteps,         \* steps the listener has completed, in order
    listSnap,       \* the listener's remaining slice of ContainerList
    ideaDir,        \* the directory <cache>/idea: whether it exists, its entries
    fixWarnings,    \* warnings logged by fixDarwinCaches
    exit            \* how the process terminated, by = "none" while alive

vars == << unpack, cc, cdnet, goos, ctx, osenv, image, osType, pc, containerName, dockerConfig,
           warnings, exitCode, ret, calls, stream, pullErr, cstate, cexit,
           waitCh, fpc, lpc, sigch, sigsent, sigAt, lsteps, listSnap, ideaDir,
           fixWarnings, exit >>

inputVars == << unpack, cc, cdnet, goos, ctx, osenv, image, osType >>
mainVars == << pc, containerName, dockerConfig, warnings, exitCode, ret,
               stream, pullErr, ideaDir, fixWarnings >>
engineVars == << cstate, cexit, waitCh >>
listenerVars == << lpc, sigch, sigAt, lsteps, listSnap >>

Alive == exit.by = "none"
NoStream == [open |-> FALSE, eof |-> FALSE, closed |-> FALSE]
OpenStream == [open |-> TRUE, eof |-> FALSE, closed |-> FALSE]
NoWait == [kind |-> "none"]
NoConfig == [none |-> TRUE]
Call(op, arg) == [op |-> op, arg |-> arg]
Issue(by, call) == [calls EXCEPT ![by] = Append(@, call)]
\* log.Fatal: the process exits with status 1, deferred calls do not run
Fatal(by) == exit' = [by |-> by, status |-> 1]

\* ---------------------------------------------------------- platform fixups
\* the entries of the directory whose os.Remove of .port fails
FailingRemovals(dir) == {i \in DOMAIN dir.entries : dir.entries[i].removeFails}

\* the loop of removePortSocket from entry i on; bad is the set of entries
\* whose os.Remove fails
RECURSIVE removePortLoop(_, _, _)
removePortLoop(entries, i, bad) ==
    IF i > Len(entries) THEN [err |-> FALSE, dir |-> entries]
    ELSE IF entries[i].isDir /\ entries[i].port
         THEN IF i \in bad
              THEN [err |-> TRUE, dir |-> entries]
              ELSE removePortLoop([entries EXCEPT ![i].port = FALSE], i + 1, bad)
         ELSE removePortLoop(entries, i + 1, bad)

\* os.ReadDir fails on a missing directory and nil is returned
removePortSocket(dir, bad) ==
    IF ~dir.exists THEN [err |-> FALSE, dir |-> dir]
    ELSE LET r == removePortLoop(dir.entries, 1, bad) IN
         [err |-> r.err, dir |-> [dir EXCEPT !.entries = r.dir]]

\* fixDarwinCaches, followed by a move of the main path to position next
fixDarwinCaches(next) ==
    /\ pc' = next
    /\ IF goos = "darwin"
       THEN LET r == removePortSocket(ideaDir, FailingRemovals(ideaDir)) IN
            /\ ideaDir' = r.dir
            /\ fixWarnings' = fixWarnings + (IF r.err THEN 1 ELSE 0)
       ELSE UNCHANGED << ideaDir, fixWarnings >>

\* ------------------------------------------------- main path: pre-flight
\* line 82
osTypeUnsupported_Never(reported) == FALSE

osTypeUnsupported(reported) == reported # "linux"

\* lines 77-85: docker.Info and the OSType check
Info ==
    /\ Alive /\ pc = "info"
    /\ calls' = Issue("main", Call("Info", Empty))
    /\ \E ok \in BOOLEAN :
         IF ~ok
         THEN Fatal("main") /\ UNCHANGED << pc, ret >>
         ELSE /\ UNCHANGED exit
              /\ IF osTypeUnsupported(osType)
                 THEN ret' = 1 /\ pc' = "returned"
                 ELSE ret' = ret /\ pc' = "fix1"
    /\ UNCHANGED << inputVars, containerName, dockerConfig, warnings, exitCode,
                    stream, pullErr, ideaDir, fixWarnings, engineVars, fpc,
                    listenerVars, sigsent >>

\* line 86
FixBefore ==
    /\ Alive /\ pc = "fix1"
    /\ fixDarwinCaches("check")
    /\ UNCHANGED << inputVars, containerName, dockerConfig, warnings, exitCode,
                    ret, calls, stream, pullErr, engineVars, fpc, listenerVars,
                    sigsent, exit >>

\* lines 90-94: CheckImage and the pull gate
CheckImageStep_NeverPulls ==
    /\ Alive /\ pc = "check"
    /\ warnings' = CheckImage(osenv.cliVersion, image)
    /\ pc' = "name1"
    /\ UNCHANGED << inputVars, containerName, dockerConfig, exitCode, ret, calls,
                    stream, pullErr, ideaDir, fixWarnings, engineVars, fpc,
                    listenerVars, sigsent, exit >>

CheckImageStep ==
    /\ Alive /\ pc = "check"
    /\ warnings' = CheckImage(osenv.cliVersion, image)
    /\ pc' = IF ctx.skipPull THEN "name1" ELSE "pull1"
    /\ UNCHANGED << inputVars, containerName, dockerConfig, exitCode, ret, calls,
                    stream, pullErr, ideaDir, fixWarnings, engineVars, fpc,
                    listenerVars, sigsent, exit >>

\* --------------------------------------------------- main path: pullImage
\* line 217-218, 238-240: the anonymous ImagePull
PullAnonymous ==
    /\ Alive /\ pc = "pull1"
    /\ calls' = Issue("main", Call("ImagePull", <<"anonymous">>))
    /\ \/ /\ stream' = OpenStream
          /\ pc' = "copy"
          /\ UNCHANGED << pullErr, exit >>
       \/ \E e \in PullErrors :
            /\ pullErr' = e
            /\ IF isDockerUnauthorizedError(e)
               THEN pc' = "auth" /\ UNCHANGED exit
               ELSE Fatal("main") /\ UNCHANGED pc
            /\ UNCHANGED stream
    /\ UNCHANGED << inputVars, containerName, dockerConfig, warnings, exitCode,
                    ret, ideaDir, fixWarnings, engineVars, fpc, listenerVars,
                    sigsent >>

\* lines 219-233: credentials are loaded and encoded; each of the three steps
\* can end the process
PullLoadAuth ==
    /\ Alive /\ pc = "auth"
    /\ \E ok \in BOOLEAN :
         IF ok THEN pc' = "pull2" /\ UNCHANGED exit
         ELSE Fatal("main") /\ UNCHANGED pc
    /\ UNCHANGED << inputVars, containerName, dockerConfig, warnings, exitCode,
                    ret, calls, stream, pullErr, ideaDir, fixWarnings,
                    engineVars, fpc, listenerVars, sigsent >>

\* lines 234-237: the credentialed ImagePull
PullCredentialed ==
    /\ Alive /\ pc = "pull2"
    /\ calls' = Issue("main", Call("ImagePull", <<"credentialed">>))
    /\ \/ /\ stream' = OpenStream
          /\ pc' = "copy"
          /\ UNCHANGED exit
       \/ Fatal("main") /\ UNCHANGED << pc, stream >>
    /\ UNCHANGED << inputVars, containerName, dockerConfig, warnings, exitCode,
                    ret, pullErr, ideaDir, fixWarnings, engineVars, fpc,
                    listenerVars, sigsent >>

\* lines 247-249: io.Copy(io.Discard, reader) reads to the end of the
\* stream, or fails part-way and log.Fatal exits at once
PullCopy ==
    /\ Alive /\ pc = "copy"
    /\ \/ /\ stream' = [stream EXCEPT !.eof = TRUE]
          /\ pc' = "close"
          /\ UNCHANGED exit
       \/ /\ Fatal("main")
          /\ UNCHANGED << pc, stream >>
    /\ UNCHANGED << inputVars, containerName, dockerConfig, warnings, exitCode,
                    ret, calls, pullErr, ideaDir, fixWarnings, engineVars, fpc,
                    listenerVars, sigsent >>

\* lines 241-246: the deferred Close runs when pullImage returns; the local
\* err ends with the call
PullClose ==
    /\ Alive /\ pc = "close"
    /\ \E ok \in BOOLEAN :
         IF ok
         THEN /\ pc' = "name1"
              /\ pullErr' = Empty
              /\ UNCHANGED exit
         ELSE /\ Fatal("main")
              /\ UNCHANGED << pc, pullErr >>
    /\ stream' = [stream EXCEPT !.closed = TRUE]
    /\ UNCHANGED << inputVars, containerName, dockerConfig, warnings, exitCode,
                    ret, calls, ideaDir, fixWarnings, engineVars, fpc,
                    listenerVars, sigsent >>

\* ------------------------------------------- main path: getDockerOptions
\* line 311: containerName = os.Getenv(QodanaCliContainerName)
OptionsReadName ==
    /\ Alive /\ pc = "name1"
    /\ containerName' = osenv.containerName
    /\ pc' = "name2"
    /\ UNCHANGED << inputVars, dockerConfig, warnings, exitCode, ret, calls,
                    stream, pullErr, ideaDir, fixWarnings, engineVars, fpc,
                    listenerVars, sigsent, exit >>

\* lines 312-314: the synthesized name when there is no override
OptionsDefaultName ==
    /\ Alive /\ pc = "name2"
    /\ containerName' = IF containerName = Empty THEN synthesizedName(ctx)
                        ELSE containerName
    /\ pc' = "build"
    /\ UNCHANGED << inputVars, dockerConfig, warnings, exitCode, ret, calls,
                    stream, pullErr, ideaDir, fixWarnings, engineVars, fpc,
                    listenerVars, sigsent, exit >>

\* lines 315-430: mounts (fatal on a volume that does not parse), ports,
\* capabilities, network mode and the returned configuration
OptionsBuild ==
    /\ Alive /\ pc = "build"
    /\ LET cfg == getDockerOptions(goos, ctx, osenv, image, containerName) IN
       IF cfg.fatal
       THEN Fatal("main") /\ UNCHANGED << pc, dockerConfig >>
       ELSE dockerConfig' = cfg /\ pc' = "create" /\ UNCHANGED exit
    /\ UNCHANGED << inputVars, containerName, warnings, exitCode, ret, calls,
                    stream, pullErr, ideaDir, fixWarnings, engineVars, fpc,
                    listenerVars, sigsent >>

\* ----------------------------------------------- main path: runContainer
\* lines 494-504
ContainerCreate_IgnoresError ==
    /\ Alive /\ pc = "create"
    /\ calls' = Issue("main", Call("ContainerCreate", dockerConfig.Name))
    /\ \E ok \in BOOLEAN :
         /\ cstate' = IF ok THEN "created" ELSE cstate
         /\ pc' = "start"
         /\ UNCHANGED exit
    /\ UNCHANGED << inputVars, containerName, dockerConfig, warnings, exitCode,
                    ret, stream, pullErr, ideaDir, fixWarnings, cexit, waitCh,
                    fpc, listenerVars, sigsent >>

ContainerCreate ==
    /\ Alive /\ pc = "create"
    /\ calls' = Issue("main", Call("ContainerCreate", dockerConfig.Name))
    /\ \E ok \in BOOLEAN :
         IF ok
         THEN cstate' = "created" /\ pc' = "start" /\ UNCHANGED exit
         ELSE Fatal("main") /\ UNCHANGED << pc, cstate >>
    /\ UNCHANGED << inputVars, containerName, dockerConfig, warnings, exitCode,
                    ret, stream, pullErr, ideaDir, fixWarnings, cexit, waitCh,
                    fpc, listenerVars, sigsent >>

\* lines 505-507
ContainerStart_IgnoresError ==
    /\ Alive /\ pc = "start"
    /\ calls' = Issue("main", Call("ContainerStart", dockerConfig.Name))
    /\ \E ok \in BOOLEAN :
         /\ cstate' = IF ok THEN "running" ELSE cstate
         /\ pc' = "follow"
         /\ UNCHANGED exit
    /\ UNCHANGED << inputVars, containerName, dockerConfig, warnings, exitCode,
                    ret, stream, pullErr, ideaDir, fixWarnings, cexit, waitCh,
                    fpc, listenerVars, sigsent >>

ContainerStart ==
    /\ Alive /\ pc = "start"
    /\ calls' = Issue("main", Call("ContainerStart", dockerConfig.Name))
    /\ \E ok \in BOOLEAN :
         IF ok
         THEN cstate' = "running" /\ pc' = "follow" /\ UNCHANGED exit
         ELSE Fatal("main") /\ UNCHANGED << pc, cstate >>
    /\ UNCHANGED << inputVars, containerName, dockerConfig, warnings, exitCode,
                    ret, stream, pullErr, ideaDir, fixWarnings, cexit, waitCh,
                    fpc, listenerVars, sigsent >>

\* line 103: go followLinter(...)
SpawnFollowLinter ==
    /\ Alive /\ pc = "follow"
    /\ fpc' = "logs"
    /\ pc' = "wait"
    /\ UNCHANGED << inputVars, containerName, dockerConfig, warnings, exitCode,
                    ret, calls, stream, pullErr, ideaDir, fixWarnings,
                    engineVars, listenerVars, sigsent, exit >>

\* ---------------------------------------- main path: getContainerExitCode
\* line 480: client.ContainerWait(ctx, id, WaitConditionNextExit)
ContainerWait ==
    /\ Alive /\ pc = "wait"
    /\ calls' = Issue("main", Call("ContainerWait", dockerConfig.Name))
    /\ waitCh' = [kind |-> "pending"]
    /\ pc' = "select"
    /\ UNCHANGED << inputVars, containerName, dockerConfig, warnings, exitCode,
                    ret, stream, pullErr, ideaDir, fixWarnings, cstate, cexit,
                    fpc, listenerVars, sigsent, exit >>

\* lines 481-489: what getContainerExitCode does with the message it
\* receives: log.Fatal on a non-nil error, 0 on a nil error, the status code
\* of a status message
getContainerExitCode_DropsStatus(m) ==
    IF m.kind = "err"
    THEN IF m.nonNil THEN [fatal |-> TRUE, code |-> 0]
         ELSE [fatal |-> FALSE, code |-> 0]
    ELSE [fatal |-> FALSE, code |-> 0]

getContainerExitCode(m) ==
    IF m.kind = "err"
    THEN IF m.nonNil THEN [fatal |-> TRUE, code |-> 0]
         ELSE [fatal |-> FALSE, code |-> 0]
    ELSE [fatal |-> FALSE, code |-> m.code]

\* the select over errCh and statusCh takes the one message sent
SelectWait_FatalOnAnyError ==
    /\ Alive /\ pc = "select"
    /\ waitCh.kind \in {"err", "status"}
    /\ IF waitCh.kind = "err"
       THEN Fatal("main") /\ UNCHANGED << pc, exitCode >>
       ELSE exitCode' = waitCh.code /\ pc' = "fix2" /\ UNCHANGED exit
    /\ waitCh' = [kind |-> "consumed", msg |-> waitCh]
    /\ UNCHANGED << inputVars, containerName, dockerConfig, warnings, ret, calls,
                    stream, pullErr, ideaDir, fixWarnings, cstate, cexit, fpc,
                    listenerVars, sigsent >>

SelectWait ==
    /\ Alive /\ pc = "select"
    /\ waitCh.kind \in {"err", "status"}
    /\ LET r == getContainerExitCode(waitCh) IN
       IF r.fatal
       THEN Fatal("main") /\ UNCHANGED << pc, exitCode >>
       ELSE exitCode' = r.code /\ pc' = "fix2" /\ UNCHANGED exit
    /\ waitCh' = [kind |-> "consumed", msg |-> waitCh]
    /\ UNCHANGED << inputVars, containerName, dockerConfig, warnings, ret, calls,
                    stream, pullErr, ideaDir, fixWarnings, cstate, cexit, fpc,
                    listenerVars, sigsent >>

\* line 107
FixAfter_FailureChangesStatus ==
    /\ Alive /\ pc = "fix2"
    /\ pc' = "return"
    /\ IF goos = "darwin"
       THEN LET r == removePortSocket(ideaDir, FailingRemovals(ideaDir)) IN
            /\ ideaDir' = r.dir
            /\ fixWarnings' = fixWarnings + (IF r.err THEN 1 ELSE 0)
            /\ exitCode' = (IF r.err THEN 1 ELSE exitCode)
       ELSE UNCHANGED << ideaDir, fixWarnings, exitCode >>
    /\ UNCHANGED << inputVars, containerName, dockerConfig, warnings,
                    ret, calls, stream, pullErr, engineVars, fpc, listenerVars,
                    sigsent, exit >>

FixAfter ==
    /\ Alive /\ pc = "fix2"
    /\ fixDarwinCaches("return")
    /\ UNCHANGED << inputVars, containerName, dockerConfig, warnings, exitCode,
                    ret, calls, stream, pullErr, engineVars, fpc, listenerVars,
                    sigsent, exit >>

\* lines 109-112: the spinner is stopped and int(exitCode) is returned
Return ==
    /\ Alive /\ pc = "return"
    /\ ret' = exitCode
    /\ pc' = "returned"
    /\ UNCHANGED << inputVars, containerName, dockerConfig, warnings, exitCode,
                    calls, stream, pullErr, ideaDir, fixWarnings, engineVars,
                    fpc, listenerVars, sigsent, exit >>

\* the caller turns the returned status into the process exit status
ProcessExit ==
    /\ Alive /\ pc = "returned"
    /\ exit' = [by |-> "main", status |-> ret]
    /\ UNCHANGED << inputVars, mainVars, calls, engineVars, fpc, listenerVars,
                    sigsent >>

\* -------------------------------------------------------- the log follower
\* followLinter asks the engine for the container's logs
FollowLogs ==
    /\ Alive /\ fpc = "logs"
    /\ calls' = Issue("follower", Call("ContainerLogs", dockerConfig.Name))
    /\ \E ok \in BOOLEAN : fpc' = IF ok THEN "streaming" ELSE "failed"
    /\ UNCHANGED << inputVars, mainVars, engineVars, listenerVars, sigsent, exit >>

\* the log stream ends when the container stops, or breaks at any time
FollowEnd ==
    /\ Alive /\ fpc = "streaming"
    /\ \/ cstate = "exited" /\ fpc' = "done"
       \/ fpc' = "failed"
    /\ UNCHANGED << inputVars, mainVars, calls, engineVars, listenerVars,
                    sigsent, exit >>

\* --------------------------------------------------- the container engine
ExitCodes == {0, 1}
OtherRunning == << <<"/", "other">> >>

\* Names[0] of the containers ContainerList reports: the running ones
RunningNames ==
    (IF cstate = "running" THEN << <<"/">> \o dockerConfig.Name >> ELSE << >>)
    \o OtherRunning

\* the container stops with status code; a pending wait receives it
Stopped(code) ==
    /\ cstate' = "exited"
    /\ cexit' = code
    /\ waitCh' = IF waitCh.kind = "pending"
                 THEN [kind |-> "status", code |-> code]
                 ELSE waitCh

\* the analysis inside the container finishes
ContainerExits ==
    /\ cstate = "running"
    /\ \E code \in ExitCodes : Stopped(code)
    /\ UNCHANGED << inputVars, mainVars, calls, fpc, listenerVars, sigsent, exit >>

\* the wait request fails: an error is sent on errCh instead of a status
WaitFails ==
    /\ Alive /\ waitCh.kind = "pending"
    /\ \E nonNil \in BOOLEAN : waitCh' = [kind |-> "err", nonNil |-> nonNil]
    /\ UNCHANGED << inputVars, mainVars, calls, cstate, cexit, fpc, listenerVars,
                    sigsent, exit >>

\* ------------------------------------------------- the interrupt listener
\* lines 33-35 of main: a signal is put in the channel of capacity 1, and
\* dropped when the channel is full
Signal ==
    /\ Alive /\ sigsent < MaxSignals
    /\ sigsent' = sigsent + 1
    /\ sigch' = IF sigch < 1 THEN sigch + 1 ELSE sigch
    /\ UNCHANGED << inputVars, mainVars, calls, engineVars, fpc, lpc, sigAt,
                    lsteps, listSnap, exit >>

\* lines 37-39 of main: <-InterruptChannel
ListenerReceive ==
    /\ Alive /\ lpc = "blocked" /\ sigch > 0
    /\ sigch' = sigch - 1
    /\ sigAt' = cstate
    /\ lpc' = "update"
    /\ UNCHANGED << inputVars, mainVars, calls, engineVars, fpc, lsteps,
                    listSnap, sigsent, exit >>

\* line 40 of main: core.CheckForUpdates
ListenerCheckForUpdates ==
    /\ Alive /\ lpc = "update"
    /\ lsteps' = Append(lsteps, "update")
    /\ lpc' = "cleanup"
    /\ UNCHANGED << inputVars, mainVars, calls, engineVars, fpc, sigch, sigAt,
                    listSnap, sigsent, exit >>

\* line 254: the test on the package variable
containerWasNamed_Always(name) == TRUE

containerWasNamed(name) == name # SentinelName

\* ContainerCleanup, lines 254-260: the sentinel test and ContainerList
CleanupList ==
    /\ Alive /\ lpc = "cleanup"
    /\ IF containerWasNamed(containerName)
       THEN /\ calls' = Issue("listener", Call("ContainerList", Empty))
            /\ \E ok \in BOOLEAN :
                 IF ok
                 THEN /\ listSnap' = RunningNames
                      /\ lpc' = "stop"
                      /\ UNCHANGED exit
                 ELSE Fatal("listener") /\ UNCHANGED << lpc, listSnap >>
            /\ UNCHANGED lsteps
       ELSE /\ lsteps' = Append(lsteps, "cleanup")
            /\ lpc' = "spinner"
            /\ UNCHANGED << calls, listSnap, exit >>
    /\ UNCHANGED << inputVars, mainVars, engineVars, fpc, sigch, sigAt, sigsent >>

\* ContainerCleanup, lines 261-268: one iteration of the loop
CleanupStop_StopsEveryListed ==
    /\ Alive /\ lpc = "stop"
    /\ IF listSnap = << >>
       THEN /\ lsteps' = Append(lsteps, "cleanup")
            /\ lpc' = "spinner"
            /\ UNCHANGED << calls, listSnap, engineVars, exit >>
       ELSE LET c == Head(listSnap) IN
            /\ listSnap' = Tail(listSnap)
            /\ UNCHANGED lsteps
            /\ calls' = Issue("listener", Call("ContainerStop", c))
            /\ \E ok \in BOOLEAN :
                 IF ok
                 THEN /\ IF cstate = "running" /\ c = <<"/">> \o dockerConfig.Name
                         THEN Stopped(143)
                         ELSE UNCHANGED engineVars
                      /\ UNCHANGED << lpc, exit >>
                 ELSE Fatal("listener") /\ UNCHANGED << lpc, engineVars >>
    /\ UNCHANGED << inputVars, mainVars, fpc, sigch, sigAt, sigsent >>

CleanupStop ==
    /\ Alive /\ lpc = "stop"
    /\ IF listSnap = << >>
       THEN /\ lsteps' = Append(lsteps, "cleanup")
            /\ lpc' = "spinner"
            /\ UNCHANGED << calls, listSnap, engineVars, exit >>
       ELSE LET c == Head(listSnap) IN
            /\ listSnap' = Tail(listSnap)
            /\ UNCHANGED lsteps
            /\ IF c = <<"/">> \o containerName
               THEN /\ calls' = Issue("listener", Call("ContainerStop", c))
                    /\ \E ok \in BOOLEAN :
                         IF ok
                         THEN /\ IF cstate = "running" /\ c = <<"/">> \o dockerConfig.Name
                                 THEN Stopped(143)
                                 ELSE UNCHANGED engineVars
                              /\ UNCHANGED << lpc, exit >>
                         ELSE Fatal("listener") /\ UNCHANGED << lpc, engineVars >>
               ELSE UNCHANGED << calls, lpc, engineVars, exit >>
    /\ UNCHANGED << inputVars, mainVars, fpc, sigch, sigAt, sigsent >>

\* line 42 of main: msg.QodanaSpinner.Stop()
ListenerStopSpinner ==
    /\ Alive /\ lpc = "spinner"
    /\ lsteps' = Append(lsteps, "spinner")
    /\ lpc' = "exit"
    /\ UNCHANGED << inputVars, mainVars, calls, engineVars, fpc, sigch, sigAt,
                    listSnap, sigsent, exit >>

\* line 43 of main: os.Exit(0)
ListenerExit_Failure ==
    /\ Alive /\ lpc = "exit"
    /\ exit' = [by |-> "listener", status |-> 1]
    /\ UNCHANGED << inputVars, mainVars, calls, engineVars, fpc, listenerVars,
                    sigsent >>

ListenerExit ==
    /\ Alive /\ lpc = "exit"
    /\ exit' = [by |-> "listener", status |-> 0]
    /\ UNCHANGED << inputVars, mainVars, calls, engineVars, fpc, listenerVars,
                    sigsent >>

\* ------------------------------------------------------------------ inputs
RECURSIVE SeqsUpTo(_, _)
SeqsUpTo(S, n) ==
    IF n = 0 THEN {<< >>}
    ELSE LET shorter == SeqsUpTo(S, n - 1) IN
         shorter \cup {Append(q, x) : q \in shorter, x \in S}

VolumeAtoms == {"s", "t", ":"}
VolumeStrings == SeqsUpTo(VolumeAtoms, MaxVolLen)

BaseContext ==
    [linter |-> <<"jetbrains/qodana", "-", "jvm", ":", "2025.1">>, ide |-> << >>,
     env |-> << >>, uploadToken |-> Empty, volumes |-> << >>, skipPull |-> FALSE,
     id |-> computeId(<<"jetbrains/qodana", "-", "jvm", ":", "2025.1">>, << >>,
                      <<"/", "project">>, <<"/", "project">>),
     jvmDebugPort |-> 0,
     globalConfigDir |-> Empty, cacheDir |-> <<"/cache">>,
     projectDir |-> <<"/project">>, resultsDir |-> <<"/results">>,
     reportDir |-> <<"/results/report">>, user |-> <<"1000:1000">>,
     cmd |-> << >>]

BaseEnvironment ==
    [containerName |-> Empty, licenseOnlyToken |-> Empty, containerKeep |-> Empty,
     cloudUrl |-> <<"https://", "qodana.cloud">>, interactive |-> FALSE,
     cliVersion |-> <<"2025.1", ".", "0">>,
     extracted |-> << [key |-> <<"QODANA_ENV">>, value |-> <<"cli">>] >>]

NameOverrides == {Empty, SentinelName, <<"my-scan">>}
NoIdeaDir == [exists |-> FALSE, entries |-> << >>]
\* two session directories with a .port file each and one plain file; the
\* removal of the first .port fails or not
StaleIdeaDir(removeFails) ==
    [exists |-> TRUE,
     entries |-> << [isDir |-> TRUE, port |-> TRUE, removeFails |-> removeFails],
                    [isDir |-> TRUE, port |-> TRUE, removeFails |-> FALSE],
                    [isDir |-> FALSE, port |-> FALSE, removeFails |-> FALSE] >>]
DefaultImage == <<"jetbrains/qodana", "-", "jvm", ":", "2025.1">>

InitProcessAt(start) ==
    /\ pc = start
    /\ containerName = SentinelName
    /\ dockerConfig = NoConfig
    /\ warnings = {}
    /\ exitCode = 0
    /\ ret = 0
    /\ calls = [main |-> << >>, follower |-> << >>, listener |-> << >>]
    /\ stream = NoStream
    /\ pullErr = Empty
    /\ cstate = "none"
    /\ cexit = 0
    /\ waitCh = NoWait
    /\ fpc = "none"
    /\ lpc = "blocked"
    /\ sigch = 0
    /\ sigsent = 0
    /\ sigAt = "-"
    /\ lsteps = << >>
    /\ listSnap = << >>
    /\ fixWarnings = 0
    /\ exit = [by |-> "none", status |-> 0]

InitProcess == InitProcessAt("info")

\* the call of Compute that gave BaseContext
BaseCompute ==
    [overrideLinter |-> <<"jetbrains/qodana", "-", "jvm", ":", "2025.1">>,
     overrideIde |-> << >>, yaml |-> [linter |-> << >>, ide |-> << >>],
     guess |-> <<"QDGO">>, projectDir |-> <<"/", "project">>,
     wd |-> <<"/", "project">>, last |-> << >>]

\* no call of computeCdnetArgs: the container path does not make one
BaseCdnetContext ==
    [Property |-> << >>, CdnetSolution |-> << >>, CdnetProject |-> << >>,
     CdnetConfiguration |-> << >>, CdnetPlatform |-> << >>, CdnetNoBuild |-> FALSE,
     yaml |-> [Solution |-> << >>, Project |-> << >>, Configuration |-> << >>,
               Platform |-> << >>],
     LogDir |-> <<"logDir">>, clt |-> <<"clt">>]
NoCdnetCall ==
    [c |-> BaseCdnetContext, called |-> FALSE, args |-> << >>, err |-> << >>]

\* no call of Decompress: the container path does not make one
NoDecompress ==
    [archive |-> [isZip |-> FALSE, openFails |-> FALSE, gzipFails |-> FALSE,
                  closeFails |-> FALSE, entries |-> << >>],
     called |-> FALSE, result |-> Unpacked(FALSE, FALSE, 0)]

Init ==
    /\ cc = BaseCompute
    /\ cdnet = NoCdnetCall
    /\ unpack = NoDecompress
    /\ goos \in {"linux", "darwin"}
    /\ ideaDir \in (IF goos = "darwin"
                     THEN {NoIdeaDir, StaleIdeaDir(FALSE), StaleIdeaDir(TRUE)}
                     ELSE {NoIdeaDir})
    /\ osType \in {"linux", "windows"}
    /\ image = DefaultImage
    /\ ctx \in {[BaseContext EXCEPT !.volumes = vs, !.skipPull = sp] :
                  vs \in {<< >>, << <<"s", ":">> >>}, sp \in BOOLEAN}
    /\ osenv \in {[BaseEnvironment EXCEPT !.containerName = n] : n \in NameOverrides}
    /\ InitProcess

MainStep ==
    \/ Info \/ FixBefore \/ CheckImageStep
    \/ PullAnonymous \/ PullLoadAuth \/ PullCredentialed \/ PullCopy \/ PullClose
    \/ OptionsReadName \/ OptionsDefaultName \/ OptionsBuild
    \/ ContainerCreate \/ ContainerStart \/ SpawnFollowLinter
    \/ ContainerWait \/ SelectWait \/ FixAfter \/ Return \/ ProcessExit

FollowerStep == FollowLogs \/ FollowEnd

EngineStep == ContainerExits \/ WaitFails

ListenerStep ==
    \/ Signal \/ ListenerReceive \/ ListenerCheckForUpdates
    \/ CleanupList \/ CleanupStop \/ ListenerStopSpinner \/ ListenerExit

Next == MainStep \/ FollowerStep \/ EngineStep \/ ListenerStep

Spec == Init /\ [][Next]_vars

\* ------------------------------------------- the configuration builder alone
\* The main path from the pre-flight to runContainer with the pull skipped,
\* no signal delivered, and the builder's inputs drawn from larger sets: user
\* volumes on either path convention, or the context's environment list and
\* the two tokens.
UploadTokens == {Empty, <<"tok">>}
LicenseOnlyTokens == {Empty, <<"lic">>}
ExtraEnvEntries ==
    { KeyValue(<<"FOO">>, <<"1">>),
      KeyValue(QodanaToken, <<"tok0">>),
      KeyValue(<<"QODANA_ENV">>, <<"ci">>),
      KeyValue(QodanaLicenseOnlyToken, <<"lic0">>),
      KeyValue(QodanaLicense, <<"lic1">>) }

UniqueKeys(env) ==
    \A i, j \in 1..Len(env) : EnvKey(env[i]) = EnvKey(env[j]) => i = j

\* Each volume is split on its own, so a list is a few sample volumes (well
\* formed and not) followed by one volume drawn from every string.
VolumeSamples ==
    { <<"s", ":", "t">>, <<"t", ":", "s">>, <<"s", ":">>, <<"s", "t">> }

VolumeLists ==
    {<< >>} \cup {Append(q, v) : q \in SeqsUpTo(VolumeSamples, MaxVolumes - 1),
                                 v \in VolumeStrings}

VolumeContexts ==
    {[BaseContext EXCEPT !.volumes = vs, !.skipPull = TRUE] : vs \in VolumeLists}

EnvContexts ==
    {[BaseContext EXCEPT !.env = e, !.uploadToken = t, !.skipPull = TRUE] :
        e \in {x \in SeqsUpTo(ExtraEnvEntries, MaxEnv) : UniqueKeys(x)},
        t \in UploadTokens}

\* image references: a repository, then nothing or ":" and a tag
ImageRepositories ==
    { <<"jetbrains/qodana", "-", "jvm">>,
      <<"jetbrains/qodana", "-", "dotnet">>,
      <<"jetbrains/qodana", "-", "cdnet">>,
      <<"registry", ":", "5000", "/", "qodana", "-", "jvm">>,
      <<"acme", "/", "qodana", "-", "dotnet">> }

ImageTags ==
    { << >>, <<"latest">>, <<"2025.1">>, <<"2024.3">>,
      <<"2025.1", "-", "eap">>, <<"latest", "-", "2025.1">> }

ImageReference(repo, tag) == IF tag = << >> THEN repo ELSE repo \o <<":">> \o tag

LinterImages == {ImageReference(r, t) : r \in ImageRepositories, t \in ImageTags}
ReleaseImages == {ImageReference(r, <<"2025.1">>) : r \in ImageRepositories}

\* version.Version of the build
CliVersions ==
    { <<"2025.1", ".", "0">>, <<"2025.1", ".", "0", "-", "nightly">>, <<"dev">> }

\* c.JvmDebugPort()
DebugPorts == {-1, 0, 5005, 8000}

\* cloud.GetCloudRootEndpoint().Url: a scheme, a host, an optional port
CloudUrls ==
    { <<"https://", "qodana.cloud">>,
      <<"https://", "localhost", ":8443">>,
      <<"http://", "localhost", ":8080">>,
      <<"http://", "127.0.0.1", ":8080">>,
      <<"http://", "qodana.example.com">> }

PortContexts ==
    {[BaseContext EXCEPT !.jvmDebugPort = p, !.skipPull = TRUE] : p \in DebugPorts}

InitOptions ==
    /\ cc = BaseCompute
    /\ cdnet = NoCdnetCall
    /\ unpack = NoDecompress
    /\ ideaDir = NoIdeaDir
    /\ osType = "linux"
    /\ \/ /\ goos \in {"linux", "windows"}
          /\ image = DefaultImage
          /\ ctx \in VolumeContexts
          /\ osenv = BaseEnvironment
       \/ /\ goos = "linux"
          /\ image = DefaultImage
          /\ ctx \in EnvContexts
          /\ osenv \in {[BaseEnvironment EXCEPT !.licenseOnlyToken = l,
                                               !.containerName = n] :
                          l \in LicenseOnlyTokens, n \in NameOverrides}
       \/ /\ goos = "linux"
          /\ image \in LinterImages
          /\ ctx = [BaseContext EXCEPT !.skipPull = TRUE]
          /\ osenv \in {[BaseEnvironment EXCEPT !.cliVersion = v] : v \in CliVersions}
       \/ /\ goos = "linux"
          /\ image \in ReleaseImages
          /\ ctx \in PortContexts
          /\ osenv \in {[BaseEnvironment EXCEPT !.cloudUrl = u, !.containerKeep = k,
                                               !.interactive = i] :
                          u \in CloudUrls, k \in {Empty, <<"1">>}, i \in BOOLEAN}
    /\ InitProcess

NextOptions ==
    \/ Info \/ FixBefore \/ CheckImageStep
    \/ OptionsReadName \/ OptionsDefaultName \/ OptionsBuild
    \/ ContainerCreate \/ ContainerStart

SpecOptions == InitOptions /\ [][NextOptions]_vars

\* --------------------------------------------- the scan context of a run
\* One invocation builds its context with Compute and, for a container
\* analyzer, goes on to the point where getDockerOptions has read the
\* identifier; the next invocation of the program starts afresh and remembers
\* what the last one computed.
JvmImage == <<"jetbrains/qodana", "-", "jvm", ":", "2025.1">>
DotnetImage == <<"jetbrains/qodana", "-", "dotnet", ":", "2025.1">>
ProjectDirs == { <<"/", "project">>, <<"/", "work", "/", "app">>, <<".">>, <<"app">> }
WorkingDirs == { <<"/", "project">>, <<"/", "work">>, << >> }

ComputeCalls ==
    {[overrideLinter |-> ol, overrideIde |-> oi, yaml |-> [linter |-> yl, ide |-> yi],
      guess |-> g, projectDir |-> d, wd |-> w, last |-> << >>] :
        ol \in {<< >>, JvmImage}, oi \in {<< >>, <<"QDJVM">>},
        yl \in {<< >>, DotnetImage}, yi \in {<< >>, <<"QDPY">>},
        g \in {<<"QDGO">>, JvmImage}, d \in ProjectDirs, w \in WorkingDirs}

\* GetAnalyzer is called only when no override and no yaml field is given
ComputeInputs ==
    {c \in ComputeCalls :
        (c.overrideLinter # << >> \/ c.overrideIde # << >>
            \/ c.yaml.linter # << >> \/ c.yaml.ide # << >>) => c.guess = <<"QDGO">>}

PendingContext ==
    [BaseContext EXCEPT !.linter = << >>, !.ide = << >>, !.id = << >>,
                        !.projectDir = << >>, !.skipPull = TRUE]

\* part_001 lines 33-73: Compute and the choice of the path that follows
ComputeStep ==
    /\ Alive /\ pc = "compute"
    /\ LET r == Compute(cc) IN
       IF r.exits
       THEN /\ exit' = [by |-> "main", status |-> 1]
            /\ UNCHANGED << pc, ctx, image >>
       ELSE /\ ctx' = [ctx EXCEPT !.linter = r.Linter, !.ide = r.Ide,
                                  !.projectDir = r.ProjectDir, !.id = r.Id]
            /\ image' = IF r.Linter # << >> THEN r.Linter ELSE image
            /\ pc' = IF r.Ide # << >> THEN "native" ELSE "info"
            /\ UNCHANGED exit
    /\ UNCHANGED << unpack, cc, cdnet, goos, osenv, osType, containerName, dockerConfig,
                    warnings, exitCode, ret, calls, stream, pullErr, ideaDir, fixWarnings,
                    engineVars, fpc, listenerVars, sigsent >>

Finished == pc \in {"native", "build"} \/ ~Alive

\* the program is run again
NextInvocation ==
    /\ Finished
    /\ \E call \in ComputeInputs :
         cc' = [call EXCEPT !.last =
                    IF pc = "compute" THEN << >>
                    ELSE << [Linter |-> ctx.linter, Ide |-> ctx.ide,
                             projectDir |-> cc.projectDir, wd |-> cc.wd,
                             Id |-> ctx.id] >>]
    /\ ctx' = PendingContext
    /\ image' = DefaultImage
    /\ pc' = "compute"
    /\ containerName' = SentinelName
    /\ dockerConfig' = NoConfig
    /\ warnings' = {}
    /\ exitCode' = 0
    /\ ret' = 0
    /\ calls' = [main |-> << >>, follower |-> << >>, listener |-> << >>]
    /\ exit' = [by |-> "none", status |-> 0]
    /\ UNCHANGED << stream, pullErr, fixWarnings, engineVars, fpc, listenerVars,
                    sigsent >>
    /\ UNCHANGED << unpack, cdnet, goos, osenv, osType, ideaDir >>

InitContext ==
    /\ cc \in ComputeInputs
    /\ cdnet = NoCdnetCall
    /\ unpack = NoDecompress
    /\ goos = "linux"
    /\ osType = "linux"
    /\ osenv = BaseEnvironment
    /\ ideaDir = NoIdeaDir
    /\ ctx = PendingContext
    /\ image = DefaultImage
    /\ InitProcessAt("compute")

NextContext ==
    \/ ComputeStep \/ Info \/ FixBefore \/ CheckImageStep
    \/ OptionsReadName \/ OptionsDefaultName \/ NextInvocation

SpecContext == InitContext /\ [][NextContext]_vars

\* ------------------------------------------- the dotnet tool command alone
UserProperties ==
    { <<"prop1", "=", "val1">>, <<"prop2", "=", "val2">>,
      <<"log.project.structure.changes", "=", "true">>,
      <<"idea.", "log.config.file", "=", "warn.xml">>,
      <<"qodana.default.", "file.suspend.threshold", "=", "100000">>,
      <<"jetbrains.security.", "package-checker.synchronizationTimeout", "=", "1000">> }

CdnetContexts ==
    {[BaseCdnetContext EXCEPT
        !.Property = ps, !.CdnetSolution = sln, !.CdnetProject = prj,
        !.CdnetConfiguration = cfg, !.CdnetPlatform = plt, !.CdnetNoBuild = nb,
        !.yaml = [Solution |-> ysln, Project |-> yprj, Configuration |-> ycfg,
                  Platform |-> yplt]] :
        ps \in SeqsUpTo(UserProperties, MaxProps),
        sln \in {<< >>, <<"solution.sln">>}, prj \in {<< >>, <<"project.csproj">>},
        cfg \in {<< >>, <<"Debug">>}, plt \in {<< >>, <<"x64">>}, nb \in BOOLEAN,
        ysln \in {<< >>, <<"yaml.sln">>}, yprj \in {<< >>, <<"yaml.csproj">>},
        ycfg \in {<< >>, <<"Release">>}, yplt \in {<< >>, <<"x86">>}}

ComputeCdnetArgs ==
    /\ ~cdnet.called
    /\ LET r == computeCdnetArgs(cdnet.c) IN
       cdnet' = [cdnet EXCEPT !.called = TRUE, !.args = r.args, !.err = r.err]
    /\ UNCHANGED << unpack, cc, goos, ctx, osenv, image, osType, mainVars, calls, exit,
                    engineVars, fpc, listenerVars, sigsent >>

InitCdnet ==
    /\ cc = BaseCompute
    /\ cdnet \in {[NoCdnetCall EXCEPT !.c = c] : c \in CdnetContexts}
    /\ unpack = NoDecompress
    /\ goos = "linux"
    /\ osType = "linux"
    /\ osenv = BaseEnvironment
    /\ ideaDir = NoIdeaDir
    /\ ctx = BaseContext
    /\ image = DefaultImage
    /\ InitProcess

NextCdnet == ComputeCdnetArgs

SpecCdnet == InitCdnet /\ [][NextCdnet]_vars

\* ------------------------------------------------ extraction of an archive
\* the entries of an archive: a directory, a regular file or another kind
\* of entry, with what goes wrong at it, and a file with an illegal path
ArchiveEntries ==
    {[type |-> "dir", legal |-> TRUE, fail |-> f] : f \in {"none", "header", "mkdir"}}
    \cup {[type |-> "reg", legal |-> TRUE, fail |-> f] :
            f \in {"none", "header", "open", "copy", "copyclose", "close"}}
    \cup {[type |-> "other", legal |-> TRUE, fail |-> "none"],
          [type |-> "reg", legal |-> FALSE, fail |-> "none"]}

Archives ==
    {[isZip |-> z, openFails |-> o, gzipFails |-> g, closeFails |-> c, entries |-> es] :
        z \in BOOLEAN, o \in BOOLEAN, g \in BOOLEAN, c \in BOOLEAN,
        es \in SeqsUpTo(ArchiveEntries, MaxEntries)}

DecompressCall ==
    /\ Alive /\ ~unpack.called
    /\ LET r == Decompress(unpack.archive, goos) IN
       /\ unpack' = [unpack EXCEPT !.called = TRUE, !.result = r]
       /\ IF r.fatal THEN Fatal("main") ELSE UNCHANGED exit
    /\ UNCHANGED << cc, cdnet, goos, ctx, osenv, image, osType, mainVars, calls,
                    engineVars, fpc, listenerVars, sigsent >>

InitDecompress ==
    /\ cc = BaseCompute
    /\ cdnet = NoCdnetCall
    /\ unpack \in {[NoDecompress EXCEPT !.archive = a] : a \in Archives}
    /\ goos \in {"linux", "windows"}
    /\ osType = "linux"
    /\ osenv = BaseEnvironment
    /\ ideaDir = NoIdeaDir
    /\ ctx = BaseContext
    /\ image = DefaultImage
    /\ InitProcess

NextDecompress == DecompressCall

SpecDecompress == InitDecompress /\ [][NextDecompress]_vars

\* ================================================================= claims
HasCall(by, op) == \E i \in 1..Len(calls[by]) : calls[by][i].op = op
CountCalls(by, op) == Cardinality({i \in 1..Len(calls[by]) : calls[by][i].op = op})
IndexOfCall(by, op) == CHOOSE i \in 1..Len(calls[by]) : calls[by][i].op = op

\* C1: when the engine's Info reports an OSType other than "linux", the run
\* goes from the Info call straight to its return, the value returned is 1,
\* and the run never issues ImagePull, ContainerCreate or ContainerStart.
C1_NonLinuxReturnsOne ==
    osType # "linux" =>
        /\ pc \in {"info", "returned"}
        /\ pc = "returned" => ret = 1
        /\ exit.by = "main" /\ pc = "returned" => exit.status = 1
        /\ ~HasCall("main", "ImagePull")
        /\ ~HasCall("main", "ContainerCreate")
        /\ ~HasCall("main", "ContainerStart")

C1_Witness ==
    /\ osType # "linux" /\ pc = "returned" /\ ret = 1
    /\ calls.main = << Call("Info", Empty) >>

\* C2: ContainerStart is issued only after a ContainerCreate that succeeded;
\* the log follower exists and ContainerWait is issued only after a
\* ContainerStart that succeeded; the follower and the exit wait are then in
\* progress together.
C2_CreateStartThenFollowAndWait ==
    /\ HasCall("main", "ContainerStart") =>
          /\ HasCall("main", "ContainerCreate")
          /\ IndexOfCall("main", "ContainerCreate") < IndexOfCall("main", "ContainerStart")
          /\ cstate # "none"
    /\ (fpc # "none" \/ HasCall("follower", "ContainerLogs")
            \/ HasCall("main", "ContainerWait")) =>
          /\ HasCall("main", "ContainerStart")
          /\ cstate \in {"running", "exited"}
    /\ HasCall("main", "ContainerWait") => fpc # "none"

C2_Witness ==
    /\ pc = "select" /\ waitCh.kind = "pending"
    /\ fpc = "streaming" /\ cstate = "running"

\* C3: when runQodanaContainer returns after receiving a status message, the
\* value returned is the status code the engine sent, whatever the state of
\* the log follower.
C3_ReturnsDeliveredStatus ==
    (pc = "returned" /\ waitCh.kind = "consumed" /\ waitCh.msg.kind = "status") =>
        /\ ret = waitCh.msg.code
        /\ ret = cexit
        /\ exit.by = "main" => exit.status = cexit

C3_Witness ==
    /\ pc = "returned" /\ waitCh.kind = "consumed" /\ waitCh.msg.kind = "status"
    /\ ret = 1 /\ fpc = "failed" /\ sigsent = 0

\* C4: a ContainerCleanup that finds the container name at its sentinel
\* issues no engine call and changes nothing but the listener's own position.
C4_CleanupNoOpOnSentinel ==
    [][(lpc = "cleanup" /\ lpc' # "cleanup" /\ containerName = SentinelName) =>
          /\ calls' = calls
          /\ lpc' = "spinner"
          /\ UNCHANGED << inputVars, mainVars, engineVars, fpc, sigch, sigsent,
                          listSnap, exit >>]_vars

C4_Witness ==
    /\ lpc = "spinner" /\ containerName = SentinelName
    /\ calls.listener = << >> /\ lsteps = <<"update", "cleanup">>

\* C5: when the listener took the signal while the container was running and
\* the process then exits through the listener's os.Exit(0) with the
\* container still running, a ContainerStop was issued for that container,
\* whatever the container's name.
C5_InterruptStopsRunningContainer ==
    (exit.by = "listener" /\ exit.status = 0 /\ sigAt = "running"
        /\ cstate = "running") =>
        \E i \in 1..Len(calls.listener) :
            /\ calls.listener[i].op = "ContainerStop"
            /\ calls.listener[i].arg = <<"/">> \o dockerConfig.Name

\* C6 as stated: whenever the process is ended by the listener goroutine, it
\* is with status 0 after the update check, the cleanup and the spinner stop,
\* whatever the engine answered during the cleanup.
C6_ListenerAlwaysExitsZero ==
    exit.by = "listener" =>
        /\ exit.status = 0
        /\ lsteps = <<"update", "cleanup", "spinner">>

ListenerSequence == <<"update", "cleanup", "spinner">>

\* C6 as amended: the listener runs update check, cleanup, spinner stop in
\* this order and at most once each, and takes one signal only; it ends the
\* process with status 0 after the whole sequence when no engine call of the
\* cleanup failed, and with status 1 from inside the cleanup, before the
\* spinner stop, when ContainerList or ContainerStop failed.
C6_ListenerExitsZeroUnlessCleanupFails ==
    /\ Len(lsteps) <= 3 /\ lsteps = SubSeq(ListenerSequence, 1, Len(lsteps))
    /\ lpc = "blocked" <=> sigAt = "-"
    /\ lpc = "blocked" => lsteps = << >>
    /\ exit.by = "listener" =>
          \/ /\ exit.status = 0
             /\ lpc = "exit"
             /\ lsteps = ListenerSequence
          \/ /\ exit.status = 1
             /\ lpc \in {"cleanup", "stop"}
             /\ lsteps = <<"update">>
             /\ calls.listener # << >>

C6_Witness ==
    /\ exit.by = "listener" /\ exit.status = 0
    /\ lsteps = ListenerSequence
    /\ sigsent = 2 /\ sigch = 1
    /\ HasCall("listener", "ContainerStop")

IsPull(c) == c.op = "ImagePull"
Pulls == SelectSeq(calls.main, IsPull)
AuthorizationErrors == {ErrUnauthorized, ErrDenied, ErrForbidden}
PullPositions == {"pull1", "auth", "pull2", "copy", "close"}

\* C7: a run issues at most two ImagePull calls, the first anonymous and the
\* second credentialed; the second is prepared and issued only after the
\* first failed with one of the three authorization errors; after a first
\* failure of another kind, or a failure of the second call, the process has
\* exited with status 1 at that call.
C7_AtMostTwoPulls ==
    /\ Len(Pulls) <= 2
    /\ Len(Pulls) >= 1 => Pulls[1].arg = <<"anonymous">>
    /\ Len(Pulls) = 2 => Pulls[2].arg = <<"credentialed">>
    /\ (pc \in {"auth", "pull2"} \/ (Len(Pulls) = 2 /\ pc \in PullPositions)) =>
          pullErr \in AuthorizationErrors
    /\ pullErr \in PullErrors \ AuthorizationErrors =>
          /\ Len(Pulls) = 1 /\ pc = "pull1"
          /\ exit = [by |-> "main", status |-> 1]
    /\ (pc = "pull2" /\ Len(Pulls) = 2) => exit = [by |-> "main", status |-> 1]

C7_Witness ==
    /\ Len(Pulls) = 2 /\ pullErr = ErrDenied /\ pc = "close"

\* C8: a pull stream is closed only after it was read to its end, and it is
\* closed whenever the main path is out of pullImage, also when the main path
\* ended the process from inside pullImage.
C8_StreamDrainedAndClosed ==
    /\ stream.closed => stream.eof
    /\ (stream.open /\ (pc \notin PullPositions \/ exit.by = "main")) =>
          stream.closed

\* c.Env() as getDockerOptions reads it at line 285, and what it appends
ContextEnv == ExtractQodanaEnvironment(ctx, osenv.extracted).env
AppendedEnv == SubSeq(dockerConfig.Env, Len(ContextEnv) + 1, Len(dockerConfig.Env))
HasKey(env, key) == \E i \in 1..Len(env) : EnvKey(env[i]) = key
BothTokensSet == ctx.uploadToken # Empty /\ osenv.licenseOnlyToken # Empty

\* C9 as stated: with both tokens set, the environment list of the built
\* configuration has the upload-token entry and no license-only entry,
\* whatever the context's own environment list holds.
C9_NoLicenseOnlyEntryAnywhere ==
    (dockerConfig # NoConfig /\ BothTokensSet) =>
        /\ \E i \in 1..Len(dockerConfig.Env) :
              dockerConfig.Env[i] = KeyValue(QodanaToken, ctx.uploadToken)
        /\ ~HasKey(dockerConfig.Env, QodanaLicenseOnlyToken)

\* C9 as amended: the built environment list is the context's own list
\* followed by the entries getDockerOptions appends; with both tokens set
\* it appends the upload-token entry alone, so that a license-only entry of
\* the result is one the context's own list already had; it appends a
\* license-only entry only when the upload token is empty.
C9_NoLicenseOnlyEntryAppended ==
    dockerConfig # NoConfig =>
        /\ Len(dockerConfig.Env) >= Len(ContextEnv)
        /\ SubSeq(dockerConfig.Env, 1, Len(ContextEnv)) = ContextEnv
        /\ BothTokensSet =>
              AppendedEnv = << KeyValue(QodanaToken, ctx.uploadToken) >>
        /\ HasKey(AppendedEnv, QodanaLicenseOnlyToken) =>
              /\ ctx.uploadToken = Empty
              /\ osenv.licenseOnlyToken # Empty
              /\ AppendedEnv =
                     << KeyValue(QodanaLicenseOnlyToken, osenv.licenseOnlyToken) >>

C9_Witness ==
    /\ dockerConfig # NoConfig /\ BothTokensSet
    /\ HasKey(ctx.env, QodanaLicenseOnlyToken)
    /\ HasKey(dockerConfig.Env, QodanaToken)

\* position of the first ":" of a volume string, 0 when there is none
FirstColon(v) ==
    IF \E i \in 1..Len(v) : v[i] = ":"
    THEN CHOOSE i \in 1..Len(v) : v[i] = ":" /\ \A j \in 1..(i - 1) : v[j] # ":"
    ELSE 0
ColonCount(v) == Cardinality({i \in 1..Len(v) : v[i] = ":"})
\* source:target with non-empty parts
SourceTargetForm(v) == ColonCount(v) = 1 /\ FirstColon(v) \notin {1, Len(v)}
EmptySourceOrTarget(v) ==
    \/ FirstColon(v) \in {0, 1, Len(v)}
    \/ v[FirstColon(v) + 1] = ":"
ContainerCallOps ==
    {"ContainerCreate", "ContainerStart", "ContainerLogs", "ContainerWait"}

\* C10: on a POSIX host the built configuration has the fixed mounts followed
\* by one bind mount per user volume, in order, and a volume source:target
\* gives the mount with that source and that target; with a volume whose
\* source or target is empty no configuration is built, the main path ends
\* the process with status 1 in getDockerOptions and has issued no container
\* call.
C10_VolumesBecomeMounts ==
    goos # "windows" =>
        /\ dockerConfig # NoConfig =>
              /\ Len(dockerConfig.Mounts) = Len(FixedMounts(ctx)) + Len(ctx.volumes)
              /\ SubSeq(dockerConfig.Mounts, 1, Len(FixedMounts(ctx))) = FixedMounts(ctx)
              /\ \A i \in 1..Len(ctx.volumes) :
                    LET v == ctx.volumes[i]
                        k == FirstColon(v) IN
                    SourceTargetForm(v) =>
                        dockerConfig.Mounts[Len(FixedMounts(ctx)) + i] =
                            [Type |-> "bind", Source |-> SubSeq(v, 1, k - 1),
                             Target |-> SubSeq(v, k + 1, Len(v))]
        /\ (\E i \in 1..Len(ctx.volumes) : EmptySourceOrTarget(ctx.volumes[i])) =>
              /\ dockerConfig = NoConfig
              /\ pc \in {"info", "fix1", "check", "name1", "name2", "build"}
              /\ \A i \in 1..Len(calls.main) : calls.main[i].op \notin ContainerCallOps
              /\ cstate = "none"
              /\ (pc = "build" /\ exit.by # "none") => exit = [by |-> "main", status |-> 1]

C10_Witness ==
    /\ goos = "linux" /\ dockerConfig # NoConfig
    /\ ctx.volumes = << <<"s", ":", "t">>, <<"t", ":", "s">> >>
    /\ Len(dockerConfig.Mounts) = 6
    /\ cstate = "running"

C10_WitnessFatal ==
    /\ goos = "linux" /\ ctx.volumes = << <<"s", ":", "t">>, <<"s", ":">> >>
    /\ pc = "build" /\ exit = [by |-> "main", status |-> 1]

\* ------------------------------------------------------------ C11 .. C13
PortText(p) ==
    CASE p = 5005 -> <<"5", "0", "0", "5">>
      [] p = 8000 -> <<"8", "0", "0", "0">>

\* C11: in the configuration built by getDockerOptions the internal debug port
\* 5005 is exposed and bound to 0.0.0.0 on the requested host port if and only
\* if the context's debug port is greater than zero; otherwise the exposed
\* ports and the port bindings are both empty.
C11_DebugPortIffPositive ==
    dockerConfig # NoConfig =>
        IF ctx.jvmDebugPort > 0
        THEN /\ dockerConfig.ExposedPorts = {<<"5", "0", "0", "5">>}
             /\ dockerConfig.PortBindings =
                    {[port |-> <<"5", "0", "0", "5">>, HostIP |-> "0.0.0.0",
                      HostPort |-> PortText(ctx.jvmDebugPort)]}
        ELSE /\ dockerConfig.ExposedPorts = {}
             /\ dockerConfig.PortBindings = {}

C11_Witness ==
    /\ ctx.jvmDebugPort = 8000 /\ dockerConfig # NoConfig /\ cstate = "running"
    /\ \E b \in dockerConfig.PortBindings : b.HostPort = <<"8", "0", "0", "0">>

DotnetRepositories ==
    { <<"jetbrains/qodana", "-", "dotnet">>, <<"acme", "/", "qodana", "-", "dotnet">> }
IsDotnetImage(ref) == \E r \in DotnetRepositories : HasPrefix(ref, r)

\* C12: the built configuration has the capability SYS_PTRACE and the security
\* option seccomp=unconfined exactly when the image is one of the dotnet
\* images; for every other image both lists are empty.
C12_DotnetCapabilities ==
    dockerConfig # NoConfig =>
        IF IsDotnetImage(image)
        THEN /\ dockerConfig.CapAdd = <<"SYS_PTRACE">>
             /\ dockerConfig.SecurityOpt = <<"seccomp=unconfined">>
        ELSE /\ dockerConfig.CapAdd = << >>
             /\ dockerConfig.SecurityOpt = << >>

C12_Witness ==
    /\ image = <<"jetbrains/qodana", "-", "dotnet", ":", "2025.1">>
    /\ dockerConfig # NoConfig /\ cstate = "running"
    /\ dockerConfig.CapAdd = <<"SYS_PTRACE">>

PlaintextEndpoint(url) == url[1] = "http://"
LocalEndpoint(url) == url[2] \in {"localhost", "127.0.0.1"}

\* C13: the built configuration uses host network mode if and only if the
\* cloud endpoint is a plaintext (http) endpoint on a local host; for an https
\* endpoint and for an endpoint that is not local the mode is the default.
C13_HostNetworkIffLocalHttp ==
    dockerConfig # NoConfig =>
        (dockerConfig.NetworkMode = "host"
            <=> (PlaintextEndpoint(osenv.cloudUrl) /\ LocalEndpoint(osenv.cloudUrl)))

\* ------------------------------------------------------------ C14, C15
\* the tag of a reference: what follows the last ":" when no "/" follows it
LastColon(ref) ==
    IF \E i \in 1..Len(ref) : ref[i] = ":"
    THEN CHOOSE i \in 1..Len(ref) :
            ref[i] = ":" /\ \A j \in (i + 1)..Len(ref) : ref[j] # ":"
    ELSE 0
HasTag(ref) ==
    LastColon(ref) > 0 /\ \A j \in (LastColon(ref) + 1)..Len(ref) : ref[j] # "/"
TagOf(ref) == IF HasTag(ref) THEN SubSeq(ref, LastColon(ref) + 1, Len(ref)) ELSE << >>
ImageChecked == pc \notin {"info", "fix1", "check"}
ReleaseBuild == osenv.cliVersion = <<"2025.1", ".", "0">>

\* C14: in a build that is neither nightly nor dev, for an image reference
\* with no tag or with the tag latest, a registry host with a port included,
\* CheckImage prints the unpinned warning and not the incompatible warning.
C14_UnpinnedWarningWithoutTag ==
    (ImageChecked /\ ReleaseBuild /\ (~HasTag(image) \/ TagOf(image) = <<"latest">>))
        => ("unpinned" \in warnings /\ "incompatible" \notin warnings)

\* C15: in a build that is neither nightly nor dev, for an image reference
\* that starts with the official prefix and whose tag contains the release
\* version, CheckImage prints no warning.
C15_NoWarningForReleaseTag ==
    (ImageChecked /\ ReleaseBuild /\ HasPrefix(image, <<"jetbrains/qodana">>)
        /\ Contains(TagOf(image), <<"2025.1">>))
        => warnings = {}

\* ------------------------------------------------------------------ C18
\* an entry that carries the upload token
CarriesUploadToken(e) ==
    /\ Contains(e, <<"QODANA_TOKEN">>)
    /\ ~Contains(e, <<"QODANA_LICENSE">>)
    /\ ~Contains(e, <<"QODANA_LICENSE", "_ONLY_TOKEN">>)

\* the -e arguments of a command, read back from its text
RECURSIVE EnvArguments(_, _)
EnvArguments(cmd, i) ==
    IF i > Len(cmd) THEN << >>
    ELSE IF cmd[i] = "-e "
         THEN LET j == CHOOSE k \in (i + 1)..Len(cmd) :
                          cmd[k] = " " /\ \A m \in (i + 1)..(k - 1) : cmd[m] # " "
              IN  <<SubSeq(cmd, i + 1, j - 1)>> \o EnvArguments(cmd, j + 1)
         ELSE EnvArguments(cmd, i + 1)

KeptEntry(e) == ~CarriesUploadToken(e)
LoggedCommand == generateDebugDockerRunCommand(dockerConfig)

HexDigits ==
    {"0", "1", "2", "3", "4", "5", "6", "7", "8", "9", "a", "b", "c", "d", "e", "f"}
IdShape(id) ==
    /\ Len(id) = 17
    /\ id[9] = "-"
    /\ \A i \in (1..8) \cup (10..17) : id[i] \in HexDigits
ComputeReturned == pc # "compute"
Identities == {a \in {ctx.linter, ctx.ide} : a # << >>}

C16_Shape ==
    ComputeReturned =>
        /\ IdShape(ctx.id)
        /\ \E a \in Identities : SubSeq(ctx.id, 1, 8) = SubSeq(getHash(a), 1, 8)
        /\ SubSeq(ctx.id, 10, 17) = SubSeq(getHash(Abs(cc.wd, cc.projectDir)), 1, 8)

C16_SameInputsSameId ==
    (ComputeReturned /\ cc.last # << >>) =>
        LET l == cc.last[1] IN
        (/\ l.Linter = ctx.linter /\ l.Ide = ctx.ide
         /\ Abs(l.wd, l.projectDir) = Abs(cc.wd, cc.projectDir)) => l.Id = ctx.id

C16_NameUsesStoredId ==
    (pc = "build" /\ osenv.containerName = << >>) =>
        containerName = <<"qodana-cli", "-">> \o ctx.id

C16_NotRecomputed == (pc # "compute" /\ pc' # "compute") => ctx'.id = ctx.id

\* C16: the identifier stored by Compute has the shape of eight hex digits, a
\* hyphen and eight hex digits, the first eight digits of the SHA-256 of the
\* analyzer and of the absolute project path; two invocations with the same
\* analyzer identity and the same absolute project path get the same
\* identifier; and once Compute has returned the stored identifier does not
\* change for the rest of the run, the container name being built from it.
C16_RunIdentifier ==
    /\ [](C16_Shape /\ C16_SameInputsSameId /\ C16_NameUsesStoredId)
    /\ [][C16_NotRecomputed]_vars

C16_Witness ==
    /\ pc = "build" /\ cc.last # << >>
    /\ cc.projectDir = <<"/", "project">>
    /\ cc.last[1].projectDir = <<".">> /\ cc.last[1].wd = <<"/", "project">>
    /\ cc.last[1].Linter = ctx.linter /\ cc.last[1].Ide = ctx.ide
    /\ cc.last[1].Id = ctx.id
    /\ containerName = <<"qodana-cli", "-">> \o ctx.id

\* C17: whenever Compute returns, exactly one of Linter and Ide of the
\* returned context is non-empty.
C17_ExactlyOneIdentity ==
    ComputeReturned => ~((ctx.linter # << >>) <=> (ctx.ide # << >>))

\* ------------------------------------------------------------ C19, C20
NonEmptyOf(values) == {v \in values : v # << >>}
TargetsGiven ==
    NonEmptyOf({cdnet.c.CdnetSolution, cdnet.c.CdnetProject,
                cdnet.c.yaml.Solution, cdnet.c.yaml.Project})
ConfigurationsGiven ==
    NonEmptyOf({cdnet.c.CdnetConfiguration, cdnet.c.yaml.Configuration})
PlatformsGiven == NonEmptyOf({cdnet.c.CdnetPlatform, cdnet.c.yaml.Platform})
IsPropertiesArg(a) == a # << >> /\ Head(a) = "--properties:"
OptionalArg(a) == IsPropertiesArg(a) \/ a = <<"--no-build">>

\* C19: computeCdnetArgs returns the error "solution/project relative file
\* path is not specified..." and no arguments exactly when no solution and no
\* project is given by option or by qodana.yaml; otherwise it returns no
\* error and the arguments dotnet, the clt path, inspectcode, a given
\* solution or project, -o="qodana.sarif.json", -f="Qodana",
\* --LogFolder="<log dir>", followed by optional arguments only.
C19_ErrorIffNoSolutionOrProject ==
    cdnet.called =>
        IF TargetsGiven = {}
        THEN /\ cdnet.args = << >>
             /\ cdnet.err =
                  <<"solution/project relative file path is not specified. Use --solution or --project flags or create qodana.yaml file with respective fields">>
        ELSE /\ cdnet.err = << >>
             /\ Len(cdnet.args) >= 7
             /\ cdnet.args[1] = <<"dotnet">>
             /\ cdnet.args[2] = <<"clt">>
             /\ cdnet.args[3] = <<"inspectcode">>
             /\ cdnet.args[4] \in TargetsGiven
             /\ cdnet.args[5] = <<"-o=", "\"", "qodana.sarif.json", "\"">>
             /\ cdnet.args[6] = <<"-f=", "\"", "Qodana", "\"">>
             /\ cdnet.args[7] = <<"--LogFolder=", "\"", "logDir", "\"">>
             /\ \A i \in 8..Len(cdnet.args) : OptionalArg(cdnet.args[i])

C19_Witness ==
    /\ cdnet.called /\ cdnet.err = << >>
    /\ cdnet.c.CdnetSolution = << >> /\ cdnet.c.CdnetProject = << >>
    /\ cdnet.c.yaml.Solution = << >> /\ cdnet.c.yaml.Project = <<"yaml.csproj">>
    /\ cdnet.args[4] = <<"yaml.csproj">>

IdeOnlyMarkers ==
    {"log.project.structure.changes", "idea.", "qodana.default.", "jetbrains.security."}
UserOnly(p) == Head(p) \notin IdeOnlyMarkers
RemainingProperties == SelectSeq(cdnet.c.Property, UserOnly)
PropertiesArgs == {i \in 1..Len(cdnet.args) : IsPropertiesArg(cdnet.args[i])}
SomethingToPass ==
    RemainingProperties # << >> \/ ConfigurationsGiven # {} \/ PlatformsGiven # {}

\* the text after --properties: is the remaining user properties in order,
\* then Configuration=, then Platform=, separated by ";"
PropertiesWellFormed ==
    \A i \in PropertiesArgs :
        LET parts == Split(Tail(cdnet.args[i]), ";")
            n == Len(RemainingProperties)
            k == IF ConfigurationsGiven # {} THEN 1 ELSE 0
            m == IF PlatformsGiven # {} THEN 1 ELSE 0
        IN  /\ Len(parts) = n + k + m
            /\ SubSeq(parts, 1, n) = RemainingProperties
            /\ k = 1 => \E v \in ConfigurationsGiven :
                            parts[n + 1] = <<"Configuration", "=">> \o v
            /\ m = 1 => \E v \in PlatformsGiven :
                            parts[n + k + 1] = <<"Platform", "=">> \o v

\* C20 as stated: a single --properties: argument is returned if and only if
\* a user property that is not IDE/TeamCity-only, a configuration or a
\* platform is set, and it lists them in that order separated by ";".
C20_PropertiesIffSet ==
    cdnet.called =>
        /\ (Cardinality(PropertiesArgs) = 1 <=> SomethingToPass)
        /\ Cardinality(PropertiesArgs) <= 1
        /\ PropertiesWellFormed

\* C20, amended: the same whenever a solution or a project is given; without
\* one no argument at all is returned.
C20_PropertiesIffSetGivenTarget ==
    cdnet.called =>
        IF TargetsGiven = {}
        THEN PropertiesArgs = {}
        ELSE /\ (Cardinality(PropertiesArgs) = 1 <=> SomethingToPass)
             /\ Cardinality(PropertiesArgs) <= 1
             /\ PropertiesWellFormed

C20_Witness ==
    /\ cdnet.called
    /\ cdnet.c.Property =
          << <<"prop1", "=", "val1">>, <<"idea.", "log.config.file", "=", "warn.xml">> >>
    /\ cdnet.c.CdnetConfiguration = <<"Debug">> /\ cdnet.c.CdnetPlatform = << >>
    /\ cdnet.c.yaml.Platform = <<"x86">>
    /\ Len(cdnet.args) >= 8
    /\ cdnet.args[8] = <<"--properties:", "prop1", "=", "val1", ";",
                         "Configuration", "=", "Debug", ";", "Platform", "=", "x86">>

\* ------------------------------------------------------------ C21 .. C27
\* C21: with SkipPull the run issues no ImagePull; without it, once the
\* container configuration is built or ContainerCreate is issued, an
\* ImagePull was issued, its stream was read to the end and closed, and the
\* last ImagePull precedes ContainerCreate among the calls of the main path.
C21_PullSkippedOrFinishedFirst ==
    /\ ctx.skipPull => (~HasCall("main", "ImagePull") /\ stream = NoStream)
    /\ (~ctx.skipPull /\ (dockerConfig # NoConfig \/ HasCall("main", "ContainerCreate"))) =>
          /\ HasCall("main", "ImagePull")
          /\ stream.open /\ stream.eof /\ stream.closed
          /\ \A i, j \in 1..Len(calls.main) :
                (calls.main[i].op = "ImagePull" /\ calls.main[j].op = "ContainerCreate")
                    => i < j

C21_Witness ==
    /\ ~ctx.skipPull /\ HasCall("main", "ContainerCreate") /\ cstate = "running"
    /\ Len(Pulls) = 2 /\ stream.eof

NoFollowNoWait ==
    /\ fpc = "none"
    /\ ~HasCall("follower", "ContainerLogs")
    /\ ~HasCall("main", "ContainerWait")

\* C22: a run issues at most one ContainerCreate and at most one
\* ContainerStart; ContainerStart is issued only after ContainerCreate
\* succeeded; when either call failed the main path has ended the process
\* with status 1 at that call, no second attempt was made, and no log follower
\* and no ContainerWait exist.
C22_CreateAndStartOnceOrFatal ==
    /\ CountCalls("main", "ContainerCreate") <= 1
    /\ CountCalls("main", "ContainerStart") <= 1
    /\ HasCall("main", "ContainerStart") =>
          (HasCall("main", "ContainerCreate") /\ cstate # "none")
    /\ (HasCall("main", "ContainerCreate") /\ cstate = "none") =>
          /\ exit = [by |-> "main", status |-> 1]
          /\ ~HasCall("main", "ContainerStart")
          /\ NoFollowNoWait
    /\ (HasCall("main", "ContainerStart") /\ cstate = "created") =>
          /\ exit = [by |-> "main", status |-> 1]
          /\ NoFollowNoWait

C22_Witness ==
    /\ HasCall("main", "ContainerStart") /\ cstate = "created"
    /\ exit = [by |-> "main", status |-> 1] /\ fpc = "none"

AfterExitCode == pc \in {"fix2", "return", "returned"}

C23_Outcome ==
    /\ (AfterExitCode /\ HasCall("main", "ContainerWait")) => waitCh.kind = "consumed"
    /\ waitCh.kind = "consumed" =>
          /\ CountCalls("main", "ContainerWait") = 1
          /\ waitCh.msg.kind \in {"status", "err"}
          /\ waitCh.msg.kind = "status" =>
                (AfterExitCode /\ exitCode = waitCh.msg.code)
          /\ (waitCh.msg.kind = "err" /\ waitCh.msg.nonNil) =>
                (pc = "select" /\ exit = [by |-> "main", status |-> 1])
          /\ (waitCh.msg.kind = "err" /\ ~waitCh.msg.nonNil) =>
                (AfterExitCode /\ exitCode = 0)

C23_OneMessage ==
    /\ (waitCh.kind # "consumed" /\ waitCh'.kind = "consumed") =>
          (waitCh.kind \in {"status", "err"} /\ waitCh'.msg = waitCh /\ pc = "select")
    /\ waitCh.kind = "consumed" => waitCh' = waitCh

\* C23: getContainerExitCode takes one message from the two channels of the
\* one ContainerWait it issued and never a second; on a status message it
\* returns the status code of the message; on a non-nil error the main path
\* ends the process with status 1 inside getContainerExitCode; on a nil
\* error, and only then without a status, it returns 0.
C23_FirstMessageDecides == []C23_Outcome /\ [][C23_OneMessage]_vars

C23_Witness ==
    /\ waitCh.kind = "consumed" /\ waitCh.msg.kind = "err" /\ ~waitCh.msg.nonNil
    /\ pc = "returned" /\ ret = 0 /\ cstate = "running"

\* one run of fixDarwinCaches on a darwin host, as seen between two states
FixupActed(next) ==
    /\ pc' = next
    /\ LET r == removePortSocket(ideaDir, FailingRemovals(ideaDir)) IN
          /\ ideaDir' = r.dir
          /\ fixWarnings' = fixWarnings + (IF r.err THEN 1 ELSE 0)
    /\ exit' = exit /\ exitCode' = exitCode /\ ret' = ret

PassedPreflight == pc \notin {"info"} /\ ~osTypeUnsupported(osType)

C24_Order ==
    goos = "darwin" =>
      /\ (cstate # "none" \/ HasCall("main", "ContainerCreate")) =>
            (PassedPreflight /\ pc # "fix1")
      /\ (PassedPreflight /\ pc \in {"return", "returned"}) =>
            waitCh.kind = "consumed"
      /\ (PassedPreflight /\ pc = "returned" /\ waitCh.msg.kind = "status") =>
            ret = waitCh.msg.code
      /\ fixWarnings <= 2
      /\ (pc \in {"fix1", "fix2"}) => exit.by # "main"

C24_Steps ==
    goos = "darwin" =>
      /\ (pc = "fix1" /\ pc' # pc) => FixupActed("check")
      /\ (pc = "fix2" /\ pc' # pc) => FixupActed("return")
      /\ (ideaDir' # ideaDir \/ fixWarnings' # fixWarnings) =>
            (pc \in {"fix1", "fix2"} /\ pc' # pc)
      /\ (pc' = "fix1") => pc \in {"info", "fix1"}
      /\ (pc' = "fix2") => pc \in {"select", "fix2"}

FixupStep == goos = "darwin" /\ pc \in {"fix1", "fix2"} /\ pc' # pc

HasMarker(e) == e.isDir /\ e.port

\* the only change to an entry is the removal of its .port file
OnlyPortRemoved(before, after) ==
    \/ after = before
    \/ HasMarker(before) /\ after = [before EXCEPT !.port = FALSE]

C25_Removal ==
    FixupStep =>
      /\ ideaDir'.exists = ideaDir.exists
      /\ Len(ideaDir'.entries) = Len(ideaDir.entries)
      /\ ~ideaDir.exists => (ideaDir' = ideaDir /\ fixWarnings' = fixWarnings)
      /\ \A i \in DOMAIN ideaDir.entries :
            /\ OnlyPortRemoved(ideaDir.entries[i], ideaDir'.entries[i])
            /\ (HasMarker(ideaDir.entries[i]) /\ ~ideaDir.entries[i].removeFails) =>
                  ~ideaDir'.entries[i].port

\* C25: a call of removePortSocket leaves no .port file whose removal can
\* succeed, does nothing and reports nothing when <cache>/idea is missing,
\* and changes nothing but .port files.
C25_EveryRemovableMarkerRemoved == [][C25_Removal]_vars

\* ------------------------------------------------------------------ C26
OwnName == <<"/">> \o containerName

StopCalls(by) == {i \in DOMAIN calls[by] : calls[by][i].op = "ContainerStop"}

C26_OnlyOwn ==
    /\ \A by \in {"main", "follower"} : StopCalls(by) = {}
    /\ \A i \in StopCalls("listener") :
          /\ calls.listener[i].arg = OwnName
          /\ calls.listener[i].arg \notin {OtherRunning[j] : j \in DOMAIN OtherRunning}
          /\ HasCall("listener", "ContainerList")
          /\ IndexOfCall("listener", "ContainerList") < i
    /\ (exit = [by |-> "listener", status |-> 1] /\ StopCalls("listener") = {}) =>
          lpc = "cleanup"

\* one iteration of the loop over the listed containers
C26_Iteration ==
    (listSnap # << >> /\ listSnap' = Tail(listSnap)) =>
      IF Head(listSnap) = OwnName
      THEN /\ Len(calls'.listener) = Len(calls.listener) + 1
           /\ calls'.listener[Len(calls'.listener)] = Call("ContainerStop", OwnName)
      ELSE /\ calls' = calls /\ exit' = exit
           /\ cstate' = cstate /\ waitCh' = waitCh

\* C26: ContainerCleanup stops only listed containers whose first name is
\* "/" followed by the container name of the process; a listed container
\* of another name is passed over with no call, no error and no effect.
C26_StopsOnlyOwnContainer == []C26_OnlyOwn /\ [][C26_Iteration]_vars

C26_Witness ==
    /\ containerWasNamed(containerName)
    /\ HasCall("listener", "ContainerList") /\ StopCalls("listener") = {}
    /\ cstate = "none" /\ exit = [by |-> "listener", status |-> 0]

\* ------------------------------------------------------------------ C27
\* C27: once the listener has ended the process with status 0, the container
\* of the run is not running, also when the signal came before the
\* container existed; stated for names other than the sentinel.
C27_InterruptLeavesNothingRunning ==
    (exit = [by |-> "listener", status |-> 0] /\ containerWasNamed(containerName)) =>
        cstate # "running"

\* ------------------------------------------------------------------ C28
Incomplete == unpack.result.processed < Len(unpack.archive.entries)

\* C28: a call of Decompress that returned after the extraction stopped
\* before the last entry of the archive returned a non-nil error; a nil
\* error is returned only when the loop went through every entry.
C28_ErrorWhenIncomplete ==
    (unpack.called /\ ~unpack.result.fatal) =>
        /\ Incomplete => unpack.result.err
        /\ ~unpack.result.err => ~Incomplete

====
